---- MODULE Spec2Model ----
(***************************************************************************)
(* Hostel-Hub backend: cart / order / menu-stock ledger and the status     *)
(* lifecycles of Order, MaintenanceRequest and OutpassRequest documents.   *)
(* Every action is one request handler (or one model-method call where the *)
(* repository has no route for the method), from load to save.             *)
(***************************************************************************)
EXTENDS Integers, Sequences, FiniteSets, TLC

VARIABLES menu, carts, orders, maint, outpass, now, resp,
          ratings, announcements, placing, submitting,
          adding, cartVersion, reviewing, storage, call

canteenVars == <<menu, carts, orders>>
lifecycleVars == <<maint, outpass, now>>
serviceVars == <<ratings, announcements>>
clientVars == <<storage, call>>
raceVars == <<adding, cartVersion, reviewing, clientVars>>
flightVars == <<placing, submitting, raceVars>>
restVars == <<serviceVars, flightVars>>
vars == <<menu, carts, orders, maint, outpass, now, resp,
          ratings, announcements, placing, submitting,
          adding, cartVersion, reviewing, storage, call>>

(***************************************************************************)
(* Bounds                                                                  *)
(***************************************************************************)
MaxQty == 1          \* largest quantity in one add-to-cart request
MaxLineQty == 2      \* cap on the quantity one cart line may reach
MaxOrders == 1       \* cap on the number of orders placed
MaxHist == 3         \* cap on the statusHistory entries over all documents

(***************************************************************************)
(* Actors (req.user): id and role                                          *)
(***************************************************************************)
Users == {"stu1", "stu2", "adm"}
Shoppers == {"stu1"}
Reviewers == {"stu1", "adm"}
None == "none"       \* undefined / null reference

role(u) == IF u = "adm" THEN "admin" ELSE "student"

\* the requireStudent middleware of the identity collaborator
requireStudent(u) == role(u) = "student"

\* the requireWarden middleware of the identity collaborator
requireWarden(u) == role(u) \in {"warden", "admin"}

MenuItems == {"m1", "m2"}

OrderStatuses ==
  {"pending", "confirmed", "preparing", "ready", "out_for_delivery",
   "delivered", "cancelled"}

(***************************************************************************)
(* Small helpers                                                           *)
(***************************************************************************)
RECURSIVE reduceTotal(_, _, _)
\* the fold of recalculateTotal for totalAmount, from line i on
reduceTotal(items, i, acc) ==
  IF i > Len(items) THEN acc
  ELSE reduceTotal(items, i + 1, acc + (items[i].price * items[i].quantity))

RECURSIVE reduceCount(_, _, _)
\* the fold of recalculateTotal for itemCount, from line i on
reduceCount(items, i, acc) ==
  IF i > Len(items) THEN acc
  ELSE reduceCount(items, i + 1, acc + items[i].quantity)

\* Array.prototype.findIndex on the menuItem reference; 0 stands for -1
findIndex(items, menuItemId) ==
  IF \E i \in 1..Len(items) : items[i].menuItem = menuItemId
  THEN CHOOSE i \in 1..Len(items) :
         /\ items[i].menuItem = menuItemId
         /\ \A j \in 1..(i - 1) : items[j].menuItem # menuItemId
  ELSE 0

\* Array.prototype.splice(i, 1)
splice(items, i) ==
  [j \in 1..(Len(items) - 1) |-> IF j < i THEN items[j] ELSE items[j + 1]]

\* String.prototype.trim / the schema option trim: true, on the strings used
trim(s) ==
  CASE s = " busy " -> "busy"
    [] s = " " -> ""
    [] OTHER -> s

(***************************************************************************)
(* Cart model (cartSchema)                                                 *)
(***************************************************************************)
NoCart == [exists |-> FALSE, items |-> <<>>, totalAmount |-> 0, itemCount |-> 0]

\* new Cart({ user }) : schema defaults
NewCart == [exists |-> TRUE, items |-> <<>>, totalAmount |-> 0, itemCount |-> 0]

recalculateTotalKeepCount(cart) ==
  [cart EXCEPT !.totalAmount = reduceTotal(cart.items, 1, 0)]

\* cartSchema.methods.recalculateTotal
recalculateTotal(cart) ==
  [cart EXCEPT !.totalAmount = reduceTotal(cart.items, 1, 0),
               !.itemCount = reduceCount(cart.items, 1, 0)]

\* cartSchema.pre('save')
cartPreSave(cart) == recalculateTotal(cart)

\* schema validation run by save(): quantity min 1, price min 0, totals min 0
cartValid(cart) ==
  /\ \A i \in 1..Len(cart.items) :
       cart.items[i].quantity >= 1 /\ cart.items[i].price >= 0
  /\ cart.totalAmount >= 0
  /\ cart.itemCount >= 0

\* doc.save(): the outcome and the document that is persisted
cartSave(cart) ==
  LET doc == cartPreSave(cart)
  IN [ok |-> cartValid(doc), doc |-> doc]

\* cartSchema.methods.addItem
addItem(cart, menuItemId, quantity, price, specialInstructions) ==
  LET existingItemIndex == findIndex(cart.items, menuItemId)
      items ==
        IF existingItemIndex > 0
        THEN [cart.items EXCEPT
                ![existingItemIndex].quantity = @ + quantity,
                ![existingItemIndex].specialInstructions =
                   IF specialInstructions # ""
                   THEN trim(specialInstructions) ELSE @]
        ELSE Append(cart.items,
                    [menuItem |-> menuItemId, quantity |-> quantity,
                     price |-> price,
                     specialInstructions |-> trim(specialInstructions)])
  IN cartSave(recalculateTotal([cart EXCEPT !.items = items]))

\* cartSchema.methods.addItem called with the quantity as a string of one
\* digit: += appends the digit to the line's quantity and the schema casts
\* the resulting digits back to a Number
addItemText(cart, menuItemId, quantity, price, specialInstructions) ==
  LET existingItemIndex == findIndex(cart.items, menuItemId)
      items ==
        IF existingItemIndex > 0
        THEN [cart.items EXCEPT
                ![existingItemIndex].quantity = (@ * 10) + quantity,
                ![existingItemIndex].specialInstructions =
                   IF specialInstructions # ""
                   THEN trim(specialInstructions) ELSE @]
        ELSE Append(cart.items,
                    [menuItem |-> menuItemId, quantity |-> quantity,
                     price |-> price,
                     specialInstructions |-> trim(specialInstructions)])
  IN cartSave(recalculateTotal([cart EXCEPT !.items = items]))

updateItemQuantityNoThrow(cart, menuItemId, quantity) ==
  LET itemIndex == findIndex(cart.items, menuItemId)
      items ==
        IF itemIndex = 0 THEN cart.items
        ELSE IF quantity <= 0
        THEN splice(cart.items, itemIndex)
        ELSE [cart.items EXCEPT ![itemIndex].quantity = quantity]
  IN [thrown |-> FALSE] @@
     cartSave(recalculateTotal([cart EXCEPT !.items = items]))

\* cartSchema.methods.updateItemQuantity; thrown = 'Item not found in cart'
updateItemQuantity(cart, menuItemId, quantity) ==
  LET itemIndex == findIndex(cart.items, menuItemId)
      items ==
        IF quantity <= 0
        THEN splice(cart.items, itemIndex)
        ELSE [cart.items EXCEPT ![itemIndex].quantity = quantity]
  IN IF itemIndex > 0
     THEN [thrown |-> FALSE] @@
          cartSave(recalculateTotal([cart EXCEPT !.items = items]))
     ELSE [thrown |-> TRUE, ok |-> FALSE, doc |-> cart]

\* cartSchema.methods.removeItem; thrown = 'Item not found in cart'
removeItem(cart, menuItemId) ==
  LET itemIndex == findIndex(cart.items, menuItemId)
  IN IF itemIndex > 0
     THEN [thrown |-> FALSE] @@
          cartSave(recalculateTotal(
            [cart EXCEPT !.items = splice(cart.items, itemIndex)]))
     ELSE [thrown |-> TRUE, ok |-> FALSE, doc |-> cart]

\* cartSchema.methods.clearCart
clearCart(cart) ==
  cartSave([cart EXCEPT !.items = <<>>, !.totalAmount = 0, !.itemCount = 0])

(***************************************************************************)
(* Menu items (menuItemSchema)                                             *)
(***************************************************************************)
Unlimited == -1      \* stock sentinel: not tracked

incrementOrderCountAlwaysDecrement(item, quantity) ==
  [item EXCEPT !.orderCount = @ + quantity, !.stock = @ - quantity]

\* menuItemSchema.methods.incrementOrderCount (the document it saves)
incrementOrderCount(item, quantity) ==
  [item EXCEPT !.orderCount = @ + quantity,
               !.stock = IF item.stock > 0 THEN @ - quantity ELSE @]

RECURSIVE incrementAll(_, _, _)
\* for (const item of cart.items) await item.menuItem.incrementOrderCount(..)
incrementAll(m, items, i) ==
  IF i > Len(items) THEN m
  ELSE incrementAll(
         [m EXCEPT ![items[i].menuItem] =
            incrementOrderCount(@, items[i].quantity)],
         items, i + 1)

(***************************************************************************)
(* Order model (orderSchema)                                               *)
(***************************************************************************)
NoRating == [rated |-> FALSE, food |-> 0, delivery |-> 0, overall |-> 0]

\* orderSchema.virtual('isCancellable')
isCancellable(order) == order.status \in {"pending", "confirmed"}

orderPreSaveNoDeliveryFee(order, isNew) ==
  IF isNew
  THEN [order EXCEPT
          !.finalAmount = order.totalAmount - order.discountAmount,
          !.statusHistory =
             Append(@, [status |-> order.status, updatedBy |-> None,
                        notes |-> ""])]
  ELSE order

\* orderSchema.pre('save')
orderPreSave(order, isNew) ==
  IF isNew
  THEN [order EXCEPT
          !.finalAmount =
             order.totalAmount + order.deliveryFee - order.discountAmount,
          !.statusHistory =
             Append(@, [status |-> order.status, updatedBy |-> None,
                        notes |-> ""])]
  ELSE order

\* schema validation run by save(): enum and min constraints
orderValid(order) ==
  /\ order.status \in OrderStatuses
  /\ order.totalAmount >= 0
  /\ order.deliveryFee >= 0
  /\ order.discountAmount >= 0
  /\ order.finalAmount >= 0
  /\ \A i \in 1..Len(order.items) :
       /\ order.items[i].quantity >= 1
       /\ order.items[i].price >= 0
       /\ order.items[i].subtotal >= 0
  /\ order.rating.rated =>
       \A r \in {order.rating.food, order.rating.delivery,
                  order.rating.overall} : r >= 1 /\ r <= 5

\* doc.save() of an order already in the collection
orderSave(order) ==
  LET doc == orderPreSave(order, FALSE)
  IN [ok |-> orderValid(doc), doc |-> doc]

orderInsertNoUniqueIndex(coll, order) ==
  LET doc == orderPreSave(order, TRUE)
  IN [ok |-> orderValid(doc), doc |-> doc]

\* doc.save() of a new order: pre-save hook, validation, unique orderNumber
orderInsert(coll, order) ==
  LET doc == orderPreSave(order, TRUE)
  IN [ok |-> /\ orderValid(doc)
             /\ \A i \in 1..Len(coll) : coll[i].orderNumber # doc.orderNumber,
      doc |-> doc]

orderUpdateStatusNoHistory(order, newStatus, updatedBy, notes) ==
  orderSave([order EXCEPT !.status = newStatus])

\* orderSchema.methods.updateStatus
orderUpdateStatus(order, newStatus, updatedBy, notes) ==
  orderSave([order EXCEPT
               !.status = newStatus,
               !.statusHistory =
                  Append(@, [status |-> newStatus, updatedBy |-> updatedBy,
                             notes |-> notes])])

cancelOrderUnguarded(order, reason, updatedBy) ==
  [thrown |-> FALSE] @@
  orderSave([order EXCEPT
               !.status = "cancelled",
               !.cancellationReason = trim(reason),
               !.statusHistory =
                  Append(@, [status |-> "cancelled", updatedBy |-> updatedBy,
                             notes |-> "Cancelled: " \o reason])])

\* orderSchema.methods.cancelOrder;
\* thrown = 'Order cannot be cancelled at this stage'
cancelOrder(order, reason, updatedBy) ==
  IF ~isCancellable(order)
  THEN [thrown |-> TRUE, ok |-> FALSE, doc |-> order]
  ELSE [thrown |-> FALSE] @@
       orderSave([order EXCEPT
                    !.status = "cancelled",
                    !.cancellationReason = trim(reason),
                    !.statusHistory =
                       Append(@, [status |-> "cancelled",
                                  updatedBy |-> updatedBy,
                                  notes |-> "Cancelled: " \o reason])])

addRatingAnyStatus(order, ratingData) ==
  [thrown |-> FALSE] @@
  orderSave([order EXCEPT
               !.rating = [rated |-> TRUE, food |-> ratingData.food,
                           delivery |-> ratingData.delivery,
                           overall |-> ratingData.overall]])

\* orderSchema.methods.addRating; thrown = 'Can only rate delivered orders'
addRating(order, ratingData) ==
  IF order.status # "delivered"
  THEN [thrown |-> TRUE, ok |-> FALSE, doc |-> order]
  ELSE [thrown |-> FALSE] @@
       orderSave([order EXCEPT
                    !.rating = [rated |-> TRUE, food |-> ratingData.food,
                                delivery |-> ratingData.delivery,
                                overall |-> ratingData.overall]])

\* orderSchema.statics.generateOrderNumber: count of the day's orders + 1
\* (every order of the model is created on the same day)
generateOrderNumber(coll) == Len(coll) + 1

(***************************************************************************)
(* Request inputs                                                          *)
(***************************************************************************)
SpecialInstructions == {"", "no onion", "extra hot"}
StatusNotes == {""}
CancelReasons == {"late", " busy "}
RatingInputs ==
  {[food |-> 5, delivery |-> 4, overall |-> 5],
   [food |-> 1, delivery |-> 2, overall |-> 1]}
StockInputs == {Unlimited, 2}

\* the outcome of the last request: handler, HTTP status, document, caller
Response(op, code, id, actor, arg) ==
  [op |-> op, code |-> code, id |-> id, actor |-> actor, arg |-> arg]

RECURSIVE histLen(_, _)
histLen(docs, i) ==
  IF i > Len(docs) THEN 0
  ELSE Len(docs[i].statusHistory) + histLen(docs, i + 1)

\* statusHistory entries over all persisted documents (bounded by MaxHist)
HistTotal == histLen(orders, 1) + histLen(maint, 1) + histLen(outpass, 1)

(***************************************************************************)
(* Initial state: a seeded menu, no carts, no orders, no requests          *)
(***************************************************************************)
InitMenu ==
  [m \in MenuItems |->
     IF m = "m1"
     THEN [price |-> 50, stock |-> 2, orderCount |-> 0,
           isActive |-> TRUE, isAvailable |-> TRUE]
     ELSE [price |-> 30, stock |-> Unlimited, orderCount |-> 0,
           isActive |-> TRUE, isAvailable |-> TRUE]]

\* requests that can be in flight at the same time: one placement per user,
\* and two rating submissions (two devices of one account, or two accounts)
Placers == {"stu1", "stu2"}
Tabs == {1, 2}

\* no placement in flight for the user
IdlePlacement ==
  [pc |-> "idle", cart |-> NoCart, docs |-> InitMenu, orderNumber |-> 0,
   line |-> 0]

\* a request body field that was not sent (undefined)
Absent == 0

NoBody ==
  [menuId |-> None, rating |-> Absent, taste |-> Absent, quality |-> Absent,
   quantity |-> Absent]

\* no rating submission in flight in the tab
IdleSubmission ==
  [pc |-> "idle", user |-> None, body |-> NoBody, found |-> 0,
   loaded |-> NoBody]

\* an add-to-cart request between its awaits: the cart as it was read, its
\* __v, and the writes other requests have made to the cart since
IdleAdd ==
  [pc |-> "idle", user |-> None, menuItemId |-> None, quantity |-> 0,
   loaded |-> NoCart, version |-> 0, since |-> {}]

\* a review request between its awaits: the outpass request as it was read
IdleReview ==
  [pc |-> "idle", user |-> None, id |-> 0, status |-> None, notes |-> "",
   loaded |-> None]

\* AsyncStorage after clearStorage(): the three keys removed
EmptyStorage == [accessToken |-> None, refreshToken |-> None, userData |-> None]

\* the locals of the latest ApiService.request call
IdleCall ==
  [pc |-> "idle", endpoint |-> None, accessToken |-> None,
   hadToken |-> FALSE, fetches |-> 0,
   refreshes |-> 0, first |-> 0, second |-> 0, refreshed |-> "none",
   outcome |-> [kind |-> "none", message |-> "", status |-> 0]]

Init ==
  /\ menu = InitMenu
  /\ carts = [u \in Users |-> NoCart]
  /\ orders = <<>>
  /\ maint = <<>>
  /\ outpass = <<>>
  /\ now = 0
  /\ ratings = <<>>
  /\ announcements = <<>>
  /\ placing = [u \in Placers |-> IdlePlacement]
  /\ submitting = [t \in Tabs |-> IdleSubmission]
  /\ adding = [t \in Tabs |-> IdleAdd]
  /\ cartVersion = [u \in Users |-> 0]
  /\ reviewing = [t \in Tabs |-> IdleReview]
  /\ storage = EmptyStorage
  /\ call = IdleCall
  /\ resp = Response("init", 0, 0, None, None)

(***************************************************************************)
(* Cart routes                                                             *)
(***************************************************************************)
\* GET /api/cart : the cart is created lazily on first access
GetCart(u) ==
  /\ carts' = IF carts[u].exists THEN carts
              ELSE [carts EXCEPT ![u] = cartSave(NewCart).doc]
  /\ resp' = Response("getCart", 200, 0, u, None)
  /\ UNCHANGED <<menu, orders, lifecycleVars, restVars>>

\* POST /api/cart/add
AddToCart(u, menuItemId, quantity, specialInstructions) ==
  LET menuItem == menu[menuItemId]
      cart == IF carts[u].exists THEN carts[u] ELSE NewCart
      res == addItem(cart, menuItemId, quantity, menuItem.price,
                     specialInstructions)
  IN /\ \A i \in 1..Len(res.doc.items) :
          res.doc.items[i].quantity <= MaxLineQty
     /\ IF ~menuItem.isActive \/ ~menuItem.isAvailable
        THEN /\ resp' = Response("addToCart", 404, 0, u, menuItemId)
             /\ UNCHANGED carts
        ELSE IF menuItem.stock # -1 /\ menuItem.stock < quantity
        THEN /\ resp' = Response("addToCart", 400, 0, u, menuItemId)
             /\ UNCHANGED carts
        ELSE IF res.ok
        THEN /\ carts' = [carts EXCEPT ![u] = res.doc]
             /\ resp' = Response("addToCart", 200, 0, u, menuItemId)
        ELSE /\ resp' = Response("addToCart", 500, 0, u, menuItemId)
             /\ UNCHANGED carts
     /\ UNCHANGED <<menu, orders, lifecycleVars, restVars>>

MaxBodyQty == 11     \* cap on the quantity a line reaches through AddToCartBody

\* POST /api/cart/add with the request body kept in resp: the quantity is a
\* JSON number or (isText) a JSON string of one digit, which isInt accepts
\* as well
AddToCartBody(u, menuItemId, quantity, isText, specialInstructions) ==
  LET menuItem == menu[menuItemId]
      cart == IF carts[u].exists THEN carts[u] ELSE NewCart
      res == IF isText
             THEN addItemText(cart, menuItemId, quantity, menuItem.price,
                              specialInstructions)
             ELSE addItem(cart, menuItemId, quantity, menuItem.price,
                          specialInstructions)
      body == [menuItemId |-> menuItemId, isText |-> isText,
               specialInstructions |-> specialInstructions]
  IN /\ \A i \in 1..Len(res.doc.items) :
          res.doc.items[i].quantity <= MaxBodyQty
     /\ IF ~menuItem.isActive \/ ~menuItem.isAvailable
        THEN /\ resp' = Response("addToCartBody", 404, quantity, u, body)
             /\ UNCHANGED carts
        ELSE IF menuItem.stock # -1 /\ menuItem.stock < quantity
        THEN /\ resp' = Response("addToCartBody", 400, quantity, u, body)
             /\ UNCHANGED carts
        ELSE IF res.ok
        THEN /\ carts' = [carts EXCEPT ![u] = res.doc]
             /\ resp' = Response("addToCartBody", 200, quantity, u, body)
        ELSE /\ resp' = Response("addToCartBody", 500, quantity, u, body)
             /\ UNCHANGED carts
     /\ UNCHANGED <<menu, orders, lifecycleVars, restVars>>

\* PUT /api/cart/update
UpdateCart(u, menuItemId, quantity) ==
  LET cart == carts[u]
      menuItem == menu[menuItemId]
      currentItemIndex == findIndex(cart.items, menuItemId)
      currentQuantity ==
        IF currentItemIndex > 0 THEN cart.items[currentItemIndex].quantity
        ELSE 0
      quantityDifference == quantity - currentQuantity
      res == IF quantity = 0 THEN removeItem(cart, menuItemId)
             ELSE updateItemQuantity(cart, menuItemId, quantity)
  IN /\ IF ~cart.exists
        THEN /\ resp' = Response("updateCart", 404, 0, u, menuItemId)
             /\ UNCHANGED carts
        ELSE IF /\ quantity # 0
                /\ menuItem.stock # -1
                /\ quantityDifference > 0
                /\ menuItem.stock < quantityDifference
        THEN /\ resp' = Response("updateCart", 400, 0, u, menuItemId)
             /\ UNCHANGED carts
        ELSE IF res.thrown \/ ~res.ok
        THEN /\ resp' = Response("updateCart", 500, 0, u, menuItemId)
             /\ UNCHANGED carts
        ELSE /\ carts' = [carts EXCEPT ![u] = res.doc]
             /\ resp' = Response("updateCart", 200, 0, u, menuItemId)
     /\ UNCHANGED <<menu, orders, lifecycleVars, restVars>>

\* PUT /api/cart/update with the quantity sent as a JSON string: isInt
\* accepts the digits of an integer >= 0, quantity === 0 is false for a
\* string, so "0" too reaches updateItemQuantity; the arithmetic and the
\* schema cast read the string as its number. resp.id carries the quantity.
UpdateCartText(u, menuItemId, quantity) ==
  LET cart == carts[u]
      menuItem == menu[menuItemId]
      currentItemIndex == findIndex(cart.items, menuItemId)
      currentQuantity ==
        IF currentItemIndex > 0 THEN cart.items[currentItemIndex].quantity
        ELSE 0
      quantityDifference == quantity - currentQuantity
      res == updateItemQuantity(cart, menuItemId, quantity)
  IN /\ IF quantity < 0
        THEN /\ resp' = Response("updateCartText", 400, quantity, u,
                                 menuItemId)
             /\ UNCHANGED carts
        ELSE IF ~cart.exists
        THEN /\ resp' = Response("updateCartText", 404, quantity, u,
                                 menuItemId)
             /\ UNCHANGED carts
        ELSE IF /\ menuItem.stock # -1
                /\ quantityDifference > 0
                /\ menuItem.stock < quantityDifference
        THEN /\ resp' = Response("updateCartText", 400, quantity, u,
                                 menuItemId)
             /\ UNCHANGED carts
        ELSE IF res.thrown \/ ~res.ok
        THEN /\ resp' = Response("updateCartText", 500, quantity, u,
                                 menuItemId)
             /\ UNCHANGED carts
        ELSE /\ carts' = [carts EXCEPT ![u] = res.doc]
             /\ resp' = Response("updateCartText", 200, quantity, u,
                                 menuItemId)
     /\ UNCHANGED <<menu, orders, lifecycleVars, restVars>>

\* DELETE /api/cart/remove/:menuItemId
RemoveFromCart(u, menuItemId) ==
  LET cart == carts[u]
      res == removeItem(cart, menuItemId)
  IN /\ IF ~cart.exists
        THEN /\ resp' = Response("removeFromCart", 404, 0, u, menuItemId)
             /\ UNCHANGED carts
        ELSE IF res.thrown \/ ~res.ok
        THEN /\ resp' = Response("removeFromCart", 500, 0, u, menuItemId)
             /\ UNCHANGED carts
        ELSE /\ carts' = [carts EXCEPT ![u] = res.doc]
             /\ resp' = Response("removeFromCart", 200, 0, u, menuItemId)
     /\ UNCHANGED <<menu, orders, lifecycleVars, restVars>>

\* DELETE /api/cart/clear
ClearCart(u) ==
  LET cart == carts[u]
      res == clearCart(cart)
  IN /\ IF ~cart.exists
        THEN /\ resp' = Response("clearCart", 404, 0, u, None)
             /\ UNCHANGED carts
        ELSE IF ~res.ok
        THEN /\ resp' = Response("clearCart", 500, 0, u, None)
             /\ UNCHANGED carts
        ELSE /\ carts' = [carts EXCEPT ![u] = res.doc]
             /\ resp' = Response("clearCart", 200, 0, u, None)
     /\ UNCHANGED <<menu, orders, lifecycleVars, restVars>>

\* PUT /api/canteen/menu/:id (admin / canteen owner): findByIdAndUpdate
UpdateMenuItem(u, menuItemId, stock, isAvailable) ==
  /\ IF role(u) \notin {"admin", "canteen_owner"}
     THEN /\ resp' = Response("updateMenuItem", 403, 0, u, menuItemId)
          /\ UNCHANGED menu
     ELSE /\ menu' = [menu EXCEPT ![menuItemId].stock = stock,
                                  ![menuItemId].isAvailable = isAvailable]
          /\ resp' = Response("updateMenuItem", 200, 0, u, menuItemId)
  /\ UNCHANGED <<carts, orders, lifecycleVars, restVars>>

(***************************************************************************)
(* Order routes                                                            *)
(***************************************************************************)
firstRejectedIgnoreStock(items) ==
  LET bad(i) ==
        LET menuItem == menu[items[i].menuItem]
        IN ~menuItem.isActive \/ ~menuItem.isAvailable
  IN IF \E i \in 1..Len(items) : bad(i)
     THEN CHOOSE i \in 1..Len(items) :
            bad(i) /\ \A j \in 1..(i - 1) : ~bad(j)
     ELSE 0

\* first cart line whose menu item fails the availability / stock check, or 0
firstRejected(items) ==
  LET bad(i) ==
        LET menuItem == menu[items[i].menuItem]
        IN \/ ~menuItem.isActive
           \/ ~menuItem.isAvailable
           \/ (menuItem.stock # -1 /\ menuItem.stock < items[i].quantity)
  IN IF \E i \in 1..Len(items) : bad(i)
     THEN CHOOSE i \in 1..Len(items) :
            bad(i) /\ \A j \in 1..(i - 1) : ~bad(j)
     ELSE 0

\* cart.items.map(item => ({ ..., subtotal: item.price * item.quantity }))
orderItems(items) ==
  [i \in 1..Len(items) |->
     [menuItem |-> items[i].menuItem,
      price |-> items[i].price,
      quantity |-> items[i].quantity,
      specialInstructions |-> items[i].specialInstructions,
      subtotal |-> items[i].price * items[i].quantity]]

FreeDeliveryFrom == 100
DeliveryFee == 20

deliveryFeeForFlat(totalAmount) == DeliveryFee

\* const deliveryFee = totalAmount >= 100 ? 0 : 20
deliveryFeeFor(totalAmount) ==
  IF totalAmount >= FreeDeliveryFrom THEN 0 ELSE DeliveryFee

\* new Order({...}) as built by POST /api/orders, before save()
newOrder(u, cart, orderNumber) ==
  LET totalAmount == cart.totalAmount
      deliveryFee == deliveryFeeFor(totalAmount)
  IN [orderNumber |-> orderNumber,
      user |-> u,
      items |-> orderItems(cart.items),
      totalAmount |-> totalAmount,
      deliveryFee |-> deliveryFee,
      discountAmount |-> 0,
      finalAmount |-> totalAmount + deliveryFee,
      status |-> "pending",
      statusHistory |-> <<>>,
      rating |-> NoRating,
      cancellationReason |-> None]

\* POST /api/orders : place an order from the user's cart
PlaceOrder(u) ==
  LET cart == carts[u]
      ins == orderInsert(orders,
                         newOrder(u, cart, generateOrderNumber(orders)))
      cleared == clearCart(cart)
  IN /\ Len(orders) < MaxOrders
     /\ HistTotal < MaxHist
     /\ IF ~cart.exists \/ Len(cart.items) = 0
        THEN /\ resp' = Response("placeOrder", 400, 0, u, None)
             /\ UNCHANGED <<menu, carts, orders>>
        ELSE IF firstRejected(cart.items) # 0
        THEN /\ resp' = Response("placeOrder", 400, 0, u, None)
             /\ UNCHANGED <<menu, carts, orders>>
        ELSE IF ~ins.ok
        THEN /\ resp' = Response("placeOrder", 500, 0, u, None)
             /\ UNCHANGED <<menu, carts, orders>>
        ELSE /\ orders' = Append(orders, ins.doc)
             /\ menu' = incrementAll(menu, cart.items, 1)
             /\ carts' = [carts EXCEPT ![u] =
                            IF cleared.ok THEN cleared.doc ELSE @]
             /\ resp' = Response("placeOrder",
                                 IF cleared.ok THEN 201 ELSE 500,
                                 Len(orders) + 1, u, None)
     /\ UNCHANGED <<lifecycleVars, restVars>>

\* PUT /api/orders/:id/status (admin / canteen owner)
UpdateOrderStatus(u, id, status, notes) ==
  LET res == orderUpdateStatus(orders[id], status, u, notes)
  IN /\ HistTotal < MaxHist
     /\ IF role(u) \notin {"admin", "canteen_owner"}
        THEN /\ resp' = Response("updateOrderStatus", 403, id, u, status)
             /\ UNCHANGED orders
        ELSE IF ~res.ok
        THEN /\ resp' = Response("updateOrderStatus", 500, id, u, status)
             /\ UNCHANGED orders
        ELSE /\ orders' = [orders EXCEPT ![id] = res.doc]
             /\ resp' = Response("updateOrderStatus", 200, id, u, status)
     /\ UNCHANGED <<menu, carts, lifecycleVars, restVars>>

\* POST /api/orders/:id/cancel (owner, admin or canteen owner)
CancelOrder(u, id, reason) ==
  LET order == orders[id]
      res == cancelOrder(order, reason, u)
  IN /\ HistTotal < MaxHist
     /\ IF order.user # u /\ role(u) \notin {"admin", "canteen_owner"}
        THEN /\ resp' = Response("cancelOrder", 403, id, u, reason)
             /\ UNCHANGED orders
        ELSE IF res.thrown \/ ~res.ok
        THEN /\ resp' = Response("cancelOrder", 400, id, u, reason)
             /\ UNCHANGED orders
        ELSE /\ orders' = [orders EXCEPT ![id] = res.doc]
             /\ resp' = Response("cancelOrder", 200, id, u, reason)
     /\ UNCHANGED <<menu, carts, lifecycleVars, restVars>>

RateOrderNoOwnerCheck(u, id, ratingData) ==
  LET order == orders[id]
      res == addRating(order, ratingData)
  IN /\ IF res.thrown \/ ~res.ok
        THEN /\ resp' = Response("rateOrder", 400, id, u, ratingData)
             /\ UNCHANGED orders
        ELSE /\ orders' = [orders EXCEPT ![id] = res.doc]
             /\ resp' = Response("rateOrder", 200, id, u, ratingData)
     /\ UNCHANGED <<menu, carts, lifecycleVars, restVars>>

\* POST /api/orders/:id/rate (owner only)
RateOrder(u, id, ratingData) ==
  LET order == orders[id]
      res == addRating(order, ratingData)
  IN /\ IF order.user # u
        THEN /\ resp' = Response("rateOrder", 403, id, u, ratingData)
             /\ UNCHANGED orders
        ELSE IF res.thrown \/ ~res.ok
        THEN /\ resp' = Response("rateOrder", 400, id, u, ratingData)
             /\ UNCHANGED orders
        ELSE /\ orders' = [orders EXCEPT ![id] = res.doc]
             /\ resp' = Response("rateOrder", 200, id, u, ratingData)
     /\ UNCHANGED <<menu, carts, lifecycleVars, restVars>>

(***************************************************************************)
(* POST /api/orders, one database round trip per step: placements of       *)
(* different users interleave at every await of the handler                *)
(***************************************************************************)
MaxPlacements == 2   \* cap on the orders placed step by step

\* placements that have passed the cart checks and not yet answered
inFlight == {u \in Placers : placing[u].pc # "idle"}

\* Cart.findOne(...).populate('items.menuItem'), then the cart checks
PlaceLoad(u) ==
  LET cart == carts[u]
  IN /\ placing[u].pc = "idle"
     /\ Len(orders) + Cardinality(inFlight) < MaxPlacements
     /\ IF ~cart.exists \/ Len(cart.items) = 0
        THEN /\ resp' = Response("placeOrder", 400, 0, u, None)
             /\ UNCHANGED placing
        ELSE IF firstRejected(cart.items) # 0
        THEN /\ resp' = Response("placeOrder", 400, 0, u, None)
             /\ UNCHANGED placing
        ELSE /\ placing' = [placing EXCEPT ![u] =
                              [pc |-> "checked", cart |-> cart, docs |-> menu,
                               orderNumber |-> 0, line |-> 1]]
             /\ resp' = Response("placeOrder", 0, 0, u, "load")
     /\ UNCHANGED <<canteenVars, lifecycleVars, serviceVars, submitting,
               raceVars>>

\* await Order.generateOrderNumber()
PlaceNumber(u) ==
  /\ placing[u].pc = "checked"
  /\ placing' = [placing EXCEPT ![u].pc = "numbered",
                                ![u].orderNumber = generateOrderNumber(orders)]
  /\ resp' = Response("placeOrder", 0, 0, u, "number")
  /\ UNCHANGED <<canteenVars, lifecycleVars, serviceVars, submitting,
               raceVars>>

\* await order.save(); a rejected insert ends the request in the catch block
PlaceSave(u) ==
  LET ins == orderInsert(orders,
                         newOrder(u, placing[u].cart, placing[u].orderNumber))
  IN /\ placing[u].pc = "numbered"
     /\ IF ~ins.ok
        THEN /\ resp' = Response("placeOrder", 500, 0, u,
                                 placing[u].orderNumber)
             /\ placing' = [placing EXCEPT ![u] = IdlePlacement]
             /\ UNCHANGED orders
        ELSE /\ orders' = Append(orders, ins.doc)
             /\ placing' = [placing EXCEPT ![u].pc = "saved"]
             /\ resp' = Response("placeOrder", 0, Len(orders) + 1, u, "save")
     /\ UNCHANGED <<menu, carts, lifecycleVars, serviceVars, submitting,
               raceVars>>

\* await item.menuItem.incrementOrderCount(item.quantity) for one cart line:
\* the populated document is the one read by PlaceLoad, and save() writes
\* the paths the method assigned
PlaceIncrement(u) ==
  LET item == placing[u].cart.items[placing[u].line]
      loaded == placing[u].docs[item.menuItem]
      doc == incrementOrderCount(loaded, item.quantity)
  IN /\ placing[u].pc = "saved"
     /\ placing[u].line <= Len(placing[u].cart.items)
     /\ menu' = [menu EXCEPT
                   ![item.menuItem].orderCount = doc.orderCount,
                   ![item.menuItem].stock =
                      IF doc.stock # loaded.stock THEN doc.stock ELSE @]
     /\ placing' = [placing EXCEPT ![u].line = @ + 1]
     /\ resp' = Response("placeOrder", 0, 0, u, "increment")
     /\ UNCHANGED <<carts, orders, lifecycleVars, serviceVars, submitting,
               raceVars>>

\* await cart.clearCart(), then the 201 response
PlaceClear(u) ==
  LET cleared == clearCart(placing[u].cart)
  IN /\ placing[u].pc = "saved"
     /\ placing[u].line > Len(placing[u].cart.items)
     /\ carts' = [carts EXCEPT ![u] = IF cleared.ok THEN cleared.doc ELSE @]
     /\ placing' = [placing EXCEPT ![u] = IdlePlacement]
     /\ resp' = Response("placeOrder", IF cleared.ok THEN 201 ELSE 500,
                         0, u, "clear")
     /\ UNCHANGED <<menu, orders, lifecycleVars, serviceVars, submitting,
               raceVars>>

(***************************************************************************)
(* MealRating model (mealRatingSchema) and POST /api/dining/rating         *)
(***************************************************************************)
MessMenus == {"mm1"}     \* the MessMenu documents that exist
MinScore == 1
MaxScore == 5
Scores == MinScore..MaxScore

roundMeanFloor(sum) == sum \div 3

\* Math.round(sum / 3) for a sum of three scores
roundMean(sum) == ((2 * sum) + 3) \div 6

\* mealRatingSchema.pre('save')
mealRatingPreSave(doc) ==
  IF doc.taste # Absent /\ doc.quality # Absent /\ doc.quantity # Absent
  THEN [doc EXCEPT !.rating = roundMean(doc.taste + doc.quality + doc.quantity)]
  ELSE doc

\* schema validation: rating required, every score within min 1 .. max 5
mealRatingValid(doc) ==
  /\ doc.rating \in Scores
  /\ \A s \in {doc.taste, doc.quality, doc.quantity} :
       s = Absent \/ s \in Scores

\* doc.save(): validation runs first, then the schema's pre-save hook
mealRatingSave(doc) ==
  [ok |-> mealRatingValid(doc), doc |-> mealRatingPreSave(doc)]

\* MealRating.findOne({ user, menuId }): index of the document, 0 for null
findRating(coll, user, menuId) ==
  IF \E i \in 1..Len(coll) : coll[i].user = user /\ coll[i].menuId = menuId
  THEN CHOOSE i \in 1..Len(coll) :
         coll[i].user = user /\ coll[i].menuId = menuId
  ELSE 0

mealRatingInsertNoUniqueIndex(coll, doc) ==
  LET res == mealRatingSave(doc)
  IN [ok |-> res.ok, doc |-> res.doc]

\* save() of a new document: the unique index on (user, menuId)
mealRatingInsert(coll, doc) ==
  LET res == mealRatingSave(doc)
  IN [ok |-> res.ok /\ findRating(coll, doc.user, doc.menuId) = 0,
      doc |-> res.doc]

\* save() of a loaded document: the assigned paths that differ from the
\* loaded values are written onto the stored document
mealRatingUpdate(stored, loaded, body) ==
  LET assigned == [loaded EXCEPT !.rating = body.rating,
                                 !.taste = body.taste,
                                 !.quality = body.quality,
                                 !.quantity = body.quantity]
      res == mealRatingSave(assigned)
  IN [ok |-> res.ok,
      doc |-> [stored EXCEPT
                 !.rating = IF body.rating # loaded.rating
                               \/ res.doc.rating # loaded.rating
                            THEN res.doc.rating ELSE @,
                 !.taste = IF body.taste # loaded.taste
                           THEN body.taste ELSE @,
                 !.quality = IF body.quality # loaded.quality
                             THEN body.quality ELSE @,
                 !.quantity = IF body.quantity # loaded.quantity
                              THEN body.quantity ELSE @]]

\* validators, then await MessMenu.findById(menuId)
SubmitBegin(t, u, body) ==
  /\ submitting[t].pc = "idle"
  /\ IF ~requireStudent(u)
     THEN /\ resp' = Response("submitRating", 403, 0, u, None)
          /\ UNCHANGED submitting
     ELSE IF ~mealRatingValid([body EXCEPT !.menuId = None])
     THEN /\ resp' = Response("submitRating", 400, 0, u, None)
          /\ UNCHANGED submitting
     ELSE IF body.menuId \notin MessMenus
     THEN /\ resp' = Response("submitRating", 404, 0, u, None)
          /\ UNCHANGED submitting
     ELSE /\ submitting' = [submitting EXCEPT ![t] =
                              [pc |-> "menuFound", user |-> u, body |-> body,
                               found |-> 0, loaded |-> NoBody]]
          /\ resp' = Response("submitRating", 0, 0, u, "menu")
  /\ UNCHANGED <<canteenVars, lifecycleVars, serviceVars, placing,
               raceVars>>

\* await MealRating.findOne({ user, menuId })
SubmitFind(t) ==
  LET req == submitting[t]
      i == findRating(ratings, req.user, req.body.menuId)
  IN /\ req.pc = "menuFound"
     /\ submitting' = [submitting EXCEPT
                         ![t].pc = "looked",
                         ![t].found = i,
                         ![t].loaded = IF i > 0 THEN ratings[i] ELSE NoBody]
     /\ resp' = Response("submitRating", 0, i, req.user, "find")
     /\ UNCHANGED <<canteenVars, lifecycleVars, serviceVars, placing,
               raceVars>>

\* await existingRating.save() or await mealRating.save(); a rejected save
\* ends the request in the catch block
SubmitSave(t) ==
  LET req == submitting[t]
      res == IF req.found > 0
             THEN mealRatingUpdate(ratings[req.found], req.loaded, req.body)
             ELSE mealRatingInsert(ratings, req.body @@ [user |-> req.user])
  IN /\ req.pc = "looked"
     /\ IF ~res.ok
        THEN /\ resp' = Response("submitRating", 500, 0, req.user, "save")
             /\ submitting' = [submitting EXCEPT ![t] = IdleSubmission]
             /\ UNCHANGED ratings
        ELSE /\ ratings' = IF req.found > 0
                           THEN [ratings EXCEPT ![req.found] = res.doc]
                           ELSE Append(ratings, res.doc)
             /\ submitting' = [submitting EXCEPT ![t].pc = "saved"]
             /\ resp' = Response("submitRating", 0,
                                 IF req.found > 0 THEN req.found
                                 ELSE Len(ratings) + 1,
                                 req.user, "save")
     /\ UNCHANGED <<canteenVars, lifecycleVars, announcements, placing,
               raceVars>>

\* await MealRating.getMenuStats(menuId), then the response; the aggregation
\* calls mongoose.Types.ObjectId without new, which throws on drivers where
\* ObjectId is a class
SubmitStats(t) ==
  /\ submitting[t].pc = "saved"
  /\ \E code \in {200, 500} :
       resp' = Response("submitRating", code, 0, submitting[t].user, "stats")
  /\ submitting' = [submitting EXCEPT ![t] = IdleSubmission]
  /\ UNCHANGED <<canteenVars, lifecycleVars, serviceVars, placing,
               raceVars>>
(***************************************************************************)
(* MaintenanceRequest model (maintenanceRequestSchema)                     *)
(***************************************************************************)
MaintenanceStatuses ==
  {"pending", "acknowledged", "in_progress", "waiting_parts", "completed",
   "cancelled", "rejected"}

NoDate == -1         \* a Date field holding null

\* new MaintenanceRequest({ requestedBy, ... }) : schema defaults
newMaintenanceRequest(u) ==
  [requestedBy |-> u,
   status |-> "pending",
   statusHistory |-> <<>>,
   actualCompletionDate |-> NoDate,
   studentRating |-> 0,
   studentFeedback |-> ""]

\* maintenanceRequestSchema.pre('save')
maintenancePreSave(doc, isNew) ==
  IF isNew
  THEN [doc EXCEPT !.statusHistory =
          Append(@, [status |-> "pending", changedBy |-> doc.requestedBy,
                     notes |-> "Request submitted"])]
  ELSE doc

\* schema validation run by save(): the status enums, rating 1..5 or null
maintenanceValid(doc) ==
  /\ doc.status \in MaintenanceStatuses
  /\ \A i \in 1..Len(doc.statusHistory) :
       doc.statusHistory[i].status \in MaintenanceStatuses
  /\ doc.studentRating = 0 \/ (doc.studentRating >= 1 /\ doc.studentRating <= 5)

maintenanceSave(doc, isNew) ==
  LET d == maintenancePreSave(doc, isNew)
  IN [ok |-> maintenanceValid(d), doc |-> d]

maintenanceUpdateStatusAlwaysStamp(doc, newStatus, changedBy, notes) ==
  maintenanceSave(
    [doc EXCEPT
       !.statusHistory =
          Append(@, [status |-> newStatus, changedBy |-> changedBy,
                     notes |-> trim(notes)]),
       !.status = newStatus,
       !.actualCompletionDate = now],
    FALSE)

\* maintenanceRequestSchema.methods.updateStatus
maintenanceUpdateStatus(doc, newStatus, changedBy, notes) ==
  maintenanceSave(
    [doc EXCEPT
       !.statusHistory =
          Append(@, [status |-> newStatus, changedBy |-> changedBy,
                     notes |-> trim(notes)]),
       !.status = newStatus,
       !.actualCompletionDate = IF newStatus = "completed" THEN now ELSE @],
    FALSE)

\* new MaintenanceRequest({...}).save()
CreateMaintenance(u) ==
  LET res == maintenanceSave(newMaintenanceRequest(u), TRUE)
  IN /\ HistTotal < MaxHist
     /\ IF res.ok
        THEN /\ maint' = Append(maint, res.doc)
             /\ resp' = Response("createMaintenance", 201,
                                 Len(maint) + 1, u, None)
        ELSE /\ resp' = Response("createMaintenance", 500, 0, u, None)
             /\ UNCHANGED maint
     /\ UNCHANGED <<canteenVars, outpass, now, restVars>>

\* request.updateStatus(newStatus, changedBy, notes) on a loaded document
MaintenanceUpdateStatus(u, id, newStatus, notes) ==
  LET res == maintenanceUpdateStatus(maint[id], newStatus, u, notes)
  IN /\ HistTotal < MaxHist
     /\ IF res.ok
        THEN /\ maint' = [maint EXCEPT ![id] = res.doc]
             /\ resp' = Response("maintenanceUpdateStatus", 200, id, u,
                                 newStatus)
        ELSE /\ resp' = Response("maintenanceUpdateStatus", 500, id, u,
                                 newStatus)
             /\ UNCHANGED maint
     /\ UNCHANGED <<canteenVars, outpass, now, restVars>>

(***************************************************************************)
(* OutpassRequest model (outpassRequestSchema); instants are whole hours   *)
(***************************************************************************)
OutpassStatuses ==
  {"pending", "under_review", "approved", "rejected", "cancelled",
   "checked_out", "overdue", "returned"}

HoursPerDay == 24

\* new Date(`${date} ${time}`) as a number of hours
instant(date, time) == date * HoursPerDay + time

\* the JavaScript % operator: the result takes the sign of the dividend
jsRemainder(a, n) == IF a >= 0 THEN a % n ELSE 0 - ((0 - a) % n)

\* new OutpassRequest({...}) as built by POST /api/outpass/request
newOutpassRequest(u, outDate, outTime, inDate, inTime) ==
  [requestedBy |-> u,
   outDate |-> outDate, outTime |-> outTime,
   inDate |-> inDate, inTime |-> inTime,
   duration |-> [days |-> 0, hours |-> 0],
   status |-> "pending",
   statusHistory |-> <<>>,
   reviewedBy |-> None, reviewedAt |-> NoDate, reviewNotes |-> "",
   actualOutTime |-> NoDate, checkedOutBy |-> None,
   actualInTime |-> NoDate, checkedInBy |-> None]

\* outpassRequestSchema.pre('save')
outpassPreSave(doc, isNew) ==
  LET diff == instant(doc.inDate, doc.inTime)
                - instant(doc.outDate, doc.outTime)
      timed == [doc EXCEPT
                  !.duration =
                     [days |-> diff \div HoursPerDay,
                      hours |-> jsRemainder(diff, HoursPerDay)]]
  IN IF isNew
     THEN [timed EXCEPT !.statusHistory =
             Append(@, [status |-> "pending", changedBy |-> doc.requestedBy,
                        notes |-> "Outpass request submitted"])]
     ELSE timed

\* schema validation run by save(): the status enums
outpassValid(doc) ==
  /\ doc.status \in OutpassStatuses
  /\ \A i \in 1..Len(doc.statusHistory) :
       doc.statusHistory[i].status \in OutpassStatuses

outpassSave(doc, isNew) ==
  LET d == outpassPreSave(doc, isNew)
  IN [ok |-> outpassValid(d), doc |-> d]

outpassUpdateStatusOverwriteHistory(doc, newStatus, changedBy, notes) ==
  outpassSave(
    [doc EXCEPT
       !.statusHistory =
          <<[status |-> newStatus, changedBy |-> changedBy,
             notes |-> trim(notes)]>>,
       !.status = newStatus],
    FALSE)

\* outpassRequestSchema.methods.updateStatus
outpassUpdateStatus(doc, newStatus, changedBy, notes) ==
  LET reviewed == newStatus \in {"approved", "rejected"}
  IN outpassSave(
       [doc EXCEPT
          !.statusHistory =
             Append(@, [status |-> newStatus, changedBy |-> changedBy,
                        notes |-> trim(notes)]),
          !.status = newStatus,
          !.reviewedBy = IF reviewed THEN changedBy ELSE @,
          !.reviewedAt = IF reviewed THEN now ELSE @,
          !.reviewNotes = IF reviewed /\ notes # "" THEN trim(notes) ELSE @,
          !.actualOutTime = IF newStatus = "checked_out" THEN now ELSE @,
          !.checkedOutBy = IF newStatus = "checked_out" THEN changedBy ELSE @,
          !.actualInTime = IF newStatus = "returned" THEN now ELSE @,
          !.checkedInBy = IF newStatus = "returned" THEN changedBy ELSE @],
       FALSE)

\* POST /api/outpass/request
CreateOutpass(u, outDate, outTime, inDate, inTime) ==
  LET res == outpassSave(
               newOutpassRequest(u, outDate, outTime, inDate, inTime), TRUE)
  IN /\ HistTotal < MaxHist
     /\ IF ~requireStudent(u)
        THEN /\ resp' = Response("createOutpass", 403, 0, u, None)
             /\ UNCHANGED outpass
        ELSE IF instant(outDate, outTime) >= instant(inDate, inTime)
        THEN /\ resp' = Response("createOutpass", 400, 0, u, None)
             /\ UNCHANGED outpass
        ELSE IF instant(outDate, outTime) < now
        THEN /\ resp' = Response("createOutpass", 400, 0, u, None)
             /\ UNCHANGED outpass
        ELSE IF ~res.ok
        THEN /\ resp' = Response("createOutpass", 500, 0, u, None)
             /\ UNCHANGED outpass
        ELSE /\ outpass' = Append(outpass, res.doc)
             /\ resp' = Response("createOutpass", 201,
                                 Len(outpass) + 1, u, None)
     /\ UNCHANGED <<canteenVars, maint, now, restVars>>

\* request.updateStatus(newStatus, changedBy, notes) on a loaded document
OutpassUpdateStatus(u, id, newStatus, notes) ==
  LET res == outpassUpdateStatus(outpass[id], newStatus, u, notes)
  IN /\ HistTotal < MaxHist
     /\ IF res.ok
        THEN /\ outpass' = [outpass EXCEPT ![id] = res.doc]
             /\ resp' = Response("outpassUpdateStatus", 200, id, u, newStatus)
        ELSE /\ resp' = Response("outpassUpdateStatus", 500, id, u, newStatus)
             /\ UNCHANGED outpass
     /\ UNCHANGED <<canteenVars, maint, now, restVars>>

\* new OutpassRequest({...}).save() with no route in front of it: the
\* schema puts no order on the two instants
SaveOutpass(u, outDate, outTime, inDate, inTime) ==
  LET res == outpassSave(
               newOutpassRequest(u, outDate, outTime, inDate, inTime), TRUE)
  IN /\ HistTotal < MaxHist
     /\ IF ~res.ok
        THEN /\ resp' = Response("saveOutpass", 500, 0, u, None)
             /\ UNCHANGED outpass
        ELSE /\ outpass' = Append(outpass, res.doc)
             /\ resp' = Response("saveOutpass", 201, Len(outpass) + 1, u,
                                 None)
     /\ UNCHANGED <<canteenVars, maint, now, restVars>>

ReviewNotes == {"", "fine"}

reviewGateOpen(doc) == TRUE

\* ['pending', 'under_review'].includes(request.status)
reviewGate(doc) == doc.status \in {"pending", "under_review"}

\* PUT /api/outpass/request/:id/review (warden)
ReviewOutpass(u, id, status, reviewNotes) ==
  LET res == outpassUpdateStatus(outpass[id], status, u, reviewNotes)
      passes == /\ requireWarden(u)
                /\ status \in {"approved", "rejected"}
                /\ id \in DOMAIN outpass
                /\ reviewGate(outpass[id])
  IN /\ passes => HistTotal < MaxHist
     /\ IF ~requireWarden(u)
        THEN /\ resp' = Response("reviewOutpass", 403, id, u, status)
             /\ UNCHANGED outpass
        ELSE IF status \notin {"approved", "rejected"}
        THEN /\ resp' = Response("reviewOutpass", 400, id, u, status)
             /\ UNCHANGED outpass
        ELSE IF id \notin DOMAIN outpass
        THEN /\ resp' = Response("reviewOutpass", 404, id, u, status)
             /\ UNCHANGED outpass
        ELSE IF ~reviewGate(outpass[id])
        THEN /\ resp' = Response("reviewOutpass", 400, id, u, status)
             /\ UNCHANGED outpass
        ELSE IF ~res.ok
        THEN /\ resp' = Response("reviewOutpass", 500, id, u, status)
             /\ UNCHANGED outpass
        ELSE /\ outpass' = [outpass EXCEPT ![id] = res.doc]
             /\ resp' = Response("reviewOutpass", 200, id, u, status)
     /\ UNCHANGED <<canteenVars, maint, now, restVars>>

isOverdueFromReturnTime(doc) ==
  doc.status = "checked_out" /\ now >= instant(doc.inDate, doc.inTime)

\* outpassRequestSchema.virtual('isOverdue')
isOverdue(doc) ==
  IF doc.status = "checked_out"
  THEN now > instant(doc.inDate, doc.inTime)
  ELSE FALSE

\* request.isOverdue read on a loaded document
ReadIsOverdue(id) ==
  /\ resp' = Response("isOverdue", 200, id, None, isOverdue(outpass[id]))
  /\ UNCHANGED <<canteenVars, lifecycleVars, restVars>>

checkOverdueStatusAlways(doc) ==
  [changed |-> TRUE] @@
  outpassUpdateStatus(doc, "overdue", None,
                      "Automatic status update - Return time exceeded")

\* outpassRequestSchema.methods.checkOverdueStatus; changed = it saved
checkOverdueStatus(doc) ==
  IF doc.status = "checked_out" /\ isOverdue(doc)
  THEN [changed |-> TRUE] @@
       outpassUpdateStatus(doc, "overdue", None,
                           "Automatic status update - Return time exceeded")
  ELSE [changed |-> FALSE, ok |-> TRUE, doc |-> doc]

\* request.checkOverdueStatus() on a loaded document
CheckOverdueStatus(id) ==
  LET res == checkOverdueStatus(outpass[id])
  IN /\ res.changed => HistTotal < MaxHist
     /\ IF res.ok
        THEN /\ outpass' = [outpass EXCEPT ![id] = res.doc]
             /\ resp' = Response("checkOverdue", 200, id, None, res.changed)
        ELSE /\ resp' = Response("checkOverdue", 500, id, None, res.changed)
             /\ UNCHANGED outpass
     /\ UNCHANGED <<canteenVars, maint, now, restVars>>

MaxNow == 3          \* cap on the clock, in hours

\* the clock advances by an hour
Tick ==
  /\ now < MaxNow
  /\ now' = now + 1
  /\ resp' = Response("tick", 0, 0, None, None)
  /\ UNCHANGED <<canteenVars, maint, outpass, restVars>>

(***************************************************************************)
(* Announcement model (announcementSchema) and /api/announcements          *)
(***************************************************************************)
Categories ==
  {"notice", "event", "emergency", "maintenance", "dining", "general"}

Priorities == {"low", "medium", "high", "urgent"}

NoCap == 0           \* eventDetails.maxParticipants unset (or 0: falsy)

\* new Announcement({ ...req.body, createdBy }) : schema defaults
newAnnouncement(u, category, priority, registrationRequired, maxParticipants) ==
  [category |-> category,
   priority |-> IF priority = None THEN "medium" ELSE priority,
   createdBy |-> u,
   targetAudience |-> "all",
   eventDetails |-> [registrationRequired |-> registrationRequired,
                     maxParticipants |-> maxParticipants,
                     registeredParticipants |-> <<>>],
   isActive |-> TRUE,
   expiresAt |-> NoDate,
   readBy |-> <<>>,
   views |-> 0,
   isPinned |-> FALSE]

\* announcementSchema.pre('save'): default expiry (in hours; an event
\* without endDate gets none) and the emergency priority, for new documents
announcementPreSave(doc, isNew, t) ==
  IF ~isNew THEN doc
  ELSE [doc EXCEPT
          !.expiresAt =
            IF @ # NoDate THEN @
            ELSE IF doc.category = "emergency" THEN t + 24
            ELSE IF doc.category = "event" THEN NoDate
            ELSE IF doc.category = "notice" THEN t + (30 * 24)
            ELSE t + (7 * 24),
          !.priority =
            IF doc.category = "emergency" /\ @ # "urgent" THEN "urgent"
            ELSE @]

\* schema validation run by save(): the category and priority enums
announcementValid(doc) ==
  doc.category \in Categories /\ doc.priority \in Priorities

\* doc.save(): validation runs first, then the schema's pre-save hook
announcementSave(doc, isNew, t) ==
  [ok |-> announcementValid(doc), doc |-> announcementPreSave(doc, isNew, t)]

\* position of the user in registeredParticipants, 0 when absent
RECURSIVE participantIndex(_, _, _)
participantIndex(participants, userId, n) ==
  IF n = 0 THEN 0
  ELSE IF participantIndex(participants, userId, n - 1) > 0
  THEN participantIndex(participants, userId, n - 1)
  ELSE IF participants[n] = userId THEN n
  ELSE 0

registerForEventOffByOne(doc, userId, t) ==
  LET ev == doc.eventDetails
      participants == ev.registeredParticipants
  IN IF \/ doc.category # "event"
        \/ ~ev.registrationRequired
        \/ participantIndex(participants, userId, Len(participants)) > 0
        \/ (ev.maxParticipants # NoCap
              /\ Len(participants) > ev.maxParticipants)
     THEN [thrown |-> TRUE, ok |-> FALSE, doc |-> doc]
     ELSE [thrown |-> FALSE] @@
          announcementSave(
            [doc EXCEPT !.eventDetails.registeredParticipants =
                          Append(@, userId)], FALSE, t)

\* announcementSchema.methods.registerForEvent; thrown = one of its Errors
registerForEvent(doc, userId, t) ==
  LET ev == doc.eventDetails
      participants == ev.registeredParticipants
  IN IF \/ doc.category # "event"
        \/ ~ev.registrationRequired
        \/ participantIndex(participants, userId, Len(participants)) > 0
        \/ (ev.maxParticipants # NoCap
              /\ Len(participants) >= ev.maxParticipants)
     THEN [thrown |-> TRUE, ok |-> FALSE, doc |-> doc]
     ELSE [thrown |-> FALSE] @@
          announcementSave(
            [doc EXCEPT !.eventDetails.registeredParticipants =
                          Append(@, userId)], FALSE, t)

\* announcementSchema.methods.unregisterFromEvent
unregisterFromEvent(doc, userId, t) ==
  LET participants == doc.eventDetails.registeredParticipants
      i == participantIndex(participants, userId, Len(participants))
  IN IF doc.category # "event" \/ i = 0
     THEN [thrown |-> TRUE, ok |-> FALSE, doc |-> doc]
     ELSE [thrown |-> FALSE] @@
          announcementSave(
            [doc EXCEPT !.eventDetails.registeredParticipants =
                          splice(@, i)], FALSE, t)

\* Announcement.findByIdAndUpdate(id, updateData, { runValidators: true }):
\* the paths of the body are set and validated; no save middleware runs
findByIdAndUpdate(doc, category, priority) ==
  LET d == [doc EXCEPT !.category = category,
                       !.priority = IF priority = None THEN @ ELSE priority]
  IN [ok |-> announcementValid(d), doc |-> d]

\* String(read.user): the hex id of an ObjectId, the inspected document
\* when the path has been populated
readerToString(user, populated) ==
  IF populated THEN "{ _id: " \o user \o ", name }" ELSE user

\* announcementSchema.methods.markAsRead; changed = it pushed and saved
markAsRead(doc, userId, populated, t) ==
  IF \E k \in DOMAIN doc.readBy :
       readerToString(doc.readBy[k], populated) = userId
  THEN [changed |-> FALSE, ok |-> TRUE, doc |-> doc]
  ELSE [changed |-> TRUE] @@
       announcementSave([doc EXCEPT !.readBy = Append(@, userId),
                                    !.views = @ + 1], FALSE, t)

\* the access check of GET /:id (no room or floor targeting is modelled)
hasAccess(doc, u) ==
  doc.targetAudience = "all" \/ doc.targetAudience = role(u)

MaxAnnouncements == 1     \* cap on the announcements created
MaxReads == 3             \* cap on the readBy entries over all announcements

RECURSIVE readLen(_, _)
\* readBy entries of documents i..Len(docs)
readLen(docs, i) ==
  IF i > Len(docs) THEN 0
  ELSE Len(docs[i].readBy) + readLen(docs, i + 1)

\* POST /api/announcements/:id/read
MarkAsRead(u, id) ==
  LET res == markAsRead(announcements[id], u, FALSE, now)
  IN /\ IF id \notin DOMAIN announcements
        THEN /\ resp' = Response("read", 404, id, u, None)
             /\ UNCHANGED announcements
        ELSE IF ~res.ok
        THEN /\ resp' = Response("read", 500, id, u, None)
             /\ UNCHANGED announcements
        ELSE /\ res.changed => readLen(announcements, 1) < MaxReads
             /\ announcements' = [announcements EXCEPT ![id] = res.doc]
             /\ resp' = Response("read", 200, id, u, None)
     /\ UNCHANGED <<canteenVars, lifecycleVars, ratings, flightVars>>

\* GET /api/announcements/:id: the document is loaded with readBy.user
\* populated, then marked as read
GetAnnouncement(u, id) ==
  LET res == markAsRead(announcements[id], u, TRUE, now)
  IN /\ IF id \notin DOMAIN announcements
        THEN /\ resp' = Response("getAnnouncement", 404, id, u, None)
             /\ UNCHANGED announcements
        ELSE IF ~hasAccess(announcements[id], u)
        THEN /\ resp' = Response("getAnnouncement", 403, id, u, None)
             /\ UNCHANGED announcements
        ELSE IF ~res.ok
        THEN /\ resp' = Response("getAnnouncement", 500, id, u, None)
             /\ UNCHANGED announcements
        ELSE /\ res.changed => readLen(announcements, 1) < MaxReads
             /\ announcements' = [announcements EXCEPT ![id] = res.doc]
             /\ resp' = Response("getAnnouncement", 200, id, u, None)
     /\ UNCHANGED <<canteenVars, lifecycleVars, ratings, flightVars>>


\* POST /api/announcements
CreateAnnouncement(u, category, priority, registrationRequired, maxParticipants) ==
  LET res == announcementSave(
               newAnnouncement(u, category, priority, registrationRequired,
                               maxParticipants), TRUE, now)
  IN /\ Len(announcements) < MaxAnnouncements
     /\ IF ~requireWarden(u)
        THEN /\ resp' = Response("createAnnouncement", 403, 0, u, category)
             /\ UNCHANGED announcements
        ELSE IF category \notin Categories
                  \/ (priority # None /\ priority \notin Priorities)
        THEN /\ resp' = Response("createAnnouncement", 400, 0, u, category)
             /\ UNCHANGED announcements
        ELSE IF ~res.ok
        THEN /\ resp' = Response("createAnnouncement", 500, 0, u, category)
             /\ UNCHANGED announcements
        ELSE /\ announcements' = Append(announcements, res.doc)
             /\ resp' = Response("createAnnouncement", 201,
                                 Len(announcements) + 1, u, category)
     /\ UNCHANGED <<canteenVars, lifecycleVars, ratings, flightVars>>

\* PUT /api/announcements/:id with category and, optionally, priority
UpdateAnnouncement(u, id, category, priority) ==
  LET res == findByIdAndUpdate(announcements[id], category, priority)
  IN /\ IF id \notin DOMAIN announcements
        THEN /\ resp' = Response("updateAnnouncement", 404, id, u, category)
             /\ UNCHANGED announcements
        ELSE IF announcements[id].createdBy # u /\ role(u) # "admin"
        THEN /\ resp' = Response("updateAnnouncement", 403, id, u, category)
             /\ UNCHANGED announcements
        ELSE IF category \notin Categories
                  \/ (priority # None /\ priority \notin Priorities)
        THEN /\ resp' = Response("updateAnnouncement", 400, id, u, category)
             /\ UNCHANGED announcements
        ELSE IF ~res.ok
        THEN /\ resp' = Response("updateAnnouncement", 500, id, u, category)
             /\ UNCHANGED announcements
        ELSE /\ announcements' = [announcements EXCEPT ![id] = res.doc]
             /\ resp' = Response("updateAnnouncement", 200, id, u, category)
     /\ UNCHANGED <<canteenVars, lifecycleVars, ratings, flightVars>>

\* POST /api/announcements/:id/register
RegisterForEvent(u, id) ==
  LET res == registerForEvent(announcements[id], u, now)
  IN /\ IF id \notin DOMAIN announcements
        THEN /\ resp' = Response("register", 404, id, u, None)
             /\ UNCHANGED announcements
        ELSE IF res.thrown \/ ~res.ok
        THEN /\ resp' = Response("register", 400, id, u, None)
             /\ UNCHANGED announcements
        ELSE /\ announcements' = [announcements EXCEPT ![id] = res.doc]
             /\ resp' = Response("register", 200, id, u, None)
     /\ UNCHANGED <<canteenVars, lifecycleVars, ratings, flightVars>>

\* DELETE /api/announcements/:id/register
UnregisterFromEvent(u, id) ==
  LET res == unregisterFromEvent(announcements[id], u, now)
  IN /\ IF id \notin DOMAIN announcements
        THEN /\ resp' = Response("unregister", 404, id, u, None)
             /\ UNCHANGED announcements
        ELSE IF res.thrown \/ ~res.ok
        THEN /\ resp' = Response("unregister", 400, id, u, None)
             /\ UNCHANGED announcements
        ELSE /\ announcements' = [announcements EXCEPT ![id] = res.doc]
             /\ resp' = Response("unregister", 200, id, u, None)
     /\ UNCHANGED <<canteenVars, lifecycleVars, ratings, flightVars>>

(***************************************************************************)
(* Specifications                                                          *)
(***************************************************************************)
\* cart handlers against a menu that the canteen owner edits
NextCart ==
  \/ \E u \in Shoppers : GetCart(u)
  \/ \E u \in Shoppers, m \in MenuItems, q \in 1..MaxQty,
        si \in SpecialInstructions : AddToCart(u, m, q, si)
  \/ \E u \in Shoppers, m \in MenuItems, q \in 0..MaxLineQty :
        UpdateCart(u, m, q)
  \/ \E u \in Shoppers, m \in MenuItems : RemoveFromCart(u, m)
  \/ \E u \in Shoppers : ClearCart(u)
  \/ \E u \in Users, s \in StockInputs, a \in BOOLEAN :
        UpdateMenuItem(u, "m1", s, a)

SpecCart == Init /\ [][NextCart]_vars

\* cart lines added, overwritten and removed, with the quantity of an update
\* sent as a number or as a string
NextLine ==
  \/ \E u \in Shoppers, m \in MenuItems, q \in 1..MaxQty :
        AddToCart(u, m, q, "")
  \/ \E u \in Shoppers, m \in MenuItems, q \in 0..MaxLineQty :
        UpdateCart(u, m, q)
  \/ \E u \in Shoppers, m \in MenuItems, q \in (-1)..MaxLineQty :
        UpdateCartText(u, m, q)
  \/ \E u \in Shoppers, m \in MenuItems : RemoveFromCart(u, m)
  \/ \E u \in Users, s \in StockInputs, a \in BOOLEAN :
        UpdateMenuItem(u, "m1", s, a)

SpecLine == Init /\ [][NextLine]_vars

\* items added to one cart again and again, with and without instructions
NextAdd ==
  \E u \in Shoppers, m \in MenuItems, q \in 1..MaxQty, t \in BOOLEAN,
     si \in SpecialInstructions : AddToCartBody(u, m, q, t, si)

SpecAdd == Init /\ [][NextAdd]_vars

\* order placement from the cart, with the stock ledger
NextPlace ==
  \/ \E u \in Shoppers, m \in MenuItems, q \in 1..MaxQty :
        AddToCart(u, m, q, "")
  \/ \E s \in StockInputs, a \in BOOLEAN : UpdateMenuItem("adm", "m1", s, a)
  \/ \E u \in Shoppers : PlaceOrder(u)

SpecPlace == Init /\ [][NextPlace]_vars

\* one user's order, with status, cancel and rate requests from the owner,
\* another student and an admin
NextAuth ==
  \/ \E u \in Shoppers, q \in 1..MaxQty : AddToCart(u, "m1", q, "")
  \/ \E u \in Shoppers : PlaceOrder(u)
  \/ \E u \in Users, id \in DOMAIN orders, s \in {"confirmed", "delivered"},
        n \in StatusNotes : UpdateOrderStatus(u, id, s, n)
  \/ \E u \in Users, id \in DOMAIN orders, r \in CancelReasons :
        CancelOrder(u, id, r)
  \/ \E u \in Users, id \in DOMAIN orders, rd \in RatingInputs :
        RateOrder(u, id, rd)

SpecAuth == Init /\ [][NextAuth]_vars

LowStockInputs == {Unlimited, 1}

\* placements from carts whose items the canteen owner has meanwhile run
\* low or switched off
NextReject ==
  \/ \E u \in Shoppers, m \in MenuItems, q \in 1..MaxQty :
        AddToCart(u, m, q, "")
  \/ \E s \in LowStockInputs, a \in BOOLEAN :
        UpdateMenuItem("adm", "m1", s, a)
  \/ \E u \in Shoppers : GetCart(u)
  \/ \E u \in Shoppers : PlaceOrder(u)

SpecReject == Init /\ [][NextReject]_vars

\* status lifecycles of orders, maintenance requests and outpass requests
NextLife ==
  \/ \E u \in Shoppers, q \in 1..MaxQty : AddToCart(u, "m1", q, "")
  \/ \E u \in Shoppers : PlaceOrder(u)
  \/ \E u \in Users, id \in DOMAIN orders, s \in OrderStatuses,
        n \in StatusNotes : UpdateOrderStatus(u, id, s, n)
  \/ \E u \in Users, id \in DOMAIN orders, r \in CancelReasons :
        CancelOrder(u, id, r)
  \/ \E u \in Users, id \in DOMAIN orders, rd \in RatingInputs :
        RateOrder(u, id, rd)
  \/ \E u \in Shoppers : CreateMaintenance(u)
  \/ \E u \in Reviewers, id \in DOMAIN maint, s \in MaintenanceStatuses,
        n \in StatusNotes : MaintenanceUpdateStatus(u, id, s, n)
  \/ \E u \in Reviewers : CreateOutpass(u, 0, 10, 1, 14)
  \/ \E u \in Reviewers, id \in DOMAIN outpass, s \in OutpassStatuses,
        n \in StatusNotes : OutpassUpdateStatus(u, id, s, n)

SpecLife == Init /\ [][NextLife]_vars

\* maintenance requests alone: creation and status updates
NextMaint ==
  \/ \E u \in Users : CreateMaintenance(u)
  \/ \E u \in Reviewers, id \in DOMAIN maint, s \in MaintenanceStatuses,
        n \in StatusNotes : MaintenanceUpdateStatus(u, id, s, n)

SpecMaint == Init /\ [][NextMaint]_vars

\* placements of two users for the same finite-stock item, step by step; a
\* user fills the cart only while no placement of theirs is in flight
NextRace ==
  \/ \E u \in Placers, q \in 1..MaxQty :
        placing[u].pc = "idle" /\ AddToCart(u, "m1", q, "")
  \/ \E u \in Placers : PlaceLoad(u)
  \/ \E u \in Placers : PlaceNumber(u)
  \/ \E u \in Placers : PlaceSave(u)
  \/ \E u \in Placers : PlaceIncrement(u)
  \/ \E u \in Placers : PlaceClear(u)

SpecRace == Init /\ [][NextRace]_vars

\* outpass requests: creation, review, the later statuses, and the clock
NextOutpass ==
  \/ \E u \in Reviewers : CreateOutpass(u, 0, 1, 0, 2)
  \/ \E id \in DOMAIN outpass, s \in {"under_review", "checked_out"},
        n \in StatusNotes : OutpassUpdateStatus("adm", id, s, n)
  \/ \E u \in Reviewers, id \in 1..(Len(outpass) + 1),
        s \in {"approved", "rejected", "returned"}, n \in ReviewNotes :
        ReviewOutpass(u, id, s, n)
  \/ \E id \in DOMAIN outpass : ReadIsOverdue(id)
  \/ Tick

SpecOutpass == Init /\ [][NextOutpass]_vars

\* outpass requests approved, checked out and swept for overdue returns
\* while the clock runs
NextOverdue ==
  \/ \E u \in Shoppers : CreateOutpass(u, 0, 1, 0, 2)
  \/ \E id \in DOMAIN outpass, s \in {"approved", "checked_out"},
        n \in StatusNotes : OutpassUpdateStatus("adm", id, s, n)
  \/ \E id \in DOMAIN outpass : CheckOverdueStatus(id)
  \/ Tick

SpecOverdue == Init /\ [][NextOverdue]_vars

MaxDay == 1          \* cap on the day numbers of outDate and inDate
MaxDocs == 1         \* cap on the outpass requests saved directly
ClockTimes == {0, 5, 10, 14, 23}

\* outpass requests saved at the data layer over a grid of instants, then
\* saved again by status updates
NextDuration ==
  \/ \E outDate, inDate \in 0..MaxDay, outTime, inTime \in ClockTimes :
        Len(outpass) < MaxDocs
          /\ SaveOutpass("stu1", outDate, outTime, inDate, inTime)
  \/ \E id \in DOMAIN outpass, s \in {"approved", "checked_out"} :
        OutpassUpdateStatus("adm", id, s, "")

SpecDuration == Init /\ [][NextDuration]_vars

CategoryInputs == {"event", "emergency"}
PriorityInputs == {None, "low"}
CapInputs == {NoCap, 1}

\* announcements created, edited, registered for and unregistered from,
\* one request at a time
NextAnnounce ==
  \/ \E u \in Reviewers, c \in CategoryInputs, p \in PriorityInputs,
        r \in BOOLEAN, cap \in CapInputs :
        CreateAnnouncement(u, c, p, r, cap)
  \/ \E u \in Reviewers, id \in 1..(Len(announcements) + 1),
        c \in CategoryInputs, p \in PriorityInputs :
        UpdateAnnouncement(u, id, c, p)
  \/ \E u \in Placers, id \in 1..(Len(announcements) + 1) :
        RegisterForEvent(u, id)
  \/ \E u \in Placers, id \in 1..(Len(announcements) + 1) :
        UnregisterFromEvent(u, id)

SpecAnnounce == Init /\ [][NextAnnounce]_vars

\* announcements created, then read through both routes that mark them
NextRead ==
  \/ \E u \in Reviewers, c \in CategoryInputs :
        CreateAnnouncement(u, c, None, FALSE, NoCap)
  \/ \E u \in Users, id \in 1..(Len(announcements) + 1) : MarkAsRead(u, id)
  \/ \E u \in Users, id \in 1..(Len(announcements) + 1) :
        GetAnnouncement(u, id)

SpecRead == Init /\ [][NextRead]_vars

\* request bodies of POST /rating: all sub-scores, one sub-score missing,
\* no rating, an unknown menu
RepeatBodies ==
  {[menuId |-> "mm1", rating |-> 5, taste |-> 4, quality |-> 3,
    quantity |-> 4],
   [menuId |-> "mm1", rating |-> 1, taste |-> 5, quality |-> Absent,
    quantity |-> 2],
   [menuId |-> "mm1", rating |-> Absent, taste |-> 3, quality |-> 3,
    quantity |-> 3],
   [menuId |-> "mm0", rating |-> 3, taste |-> Absent, quality |-> Absent,
    quantity |-> Absent]}

\* rating submissions of two tabs, step by step
NextDup ==
  \/ \E t \in Tabs, u \in Users, b \in RepeatBodies : SubmitBegin(t, u, b)
  \/ \E t \in Tabs : SubmitFind(t)
  \/ \E t \in Tabs : SubmitSave(t)
  \/ \E t \in Tabs : SubmitStats(t)

SpecDup == Init /\ [][NextDup]_vars

\* request bodies that pass the validators of POST /rating for a known menu
ScoreBodies ==
  [menuId : MessMenus, rating : Scores, taste : Scores \cup {Absent},
   quality : Scores \cup {Absent}, quantity : Scores \cup {Absent}]

\* rating submissions one after the other: the first of all over every
\* valid body, the later ones over RepeatBodies
NextRound ==
  \/ \E u \in Users :
        \E b \in (IF ratings = <<>> THEN ScoreBodies ELSE {})
                   \cup RepeatBodies :
          SubmitBegin(1, u, b)
  \/ SubmitFind(1)
  \/ SubmitSave(1)
  \/ SubmitStats(1)

SpecRound == Init /\ [][NextRound]_vars

(***************************************************************************)
(* Properties                                                              *)
(***************************************************************************)
RECURSIVE sumAmount(_, _)
\* price * quantity summed over lines 1..n
sumAmount(items, n) ==
  IF n = 0 THEN 0
  ELSE (items[n].price * items[n].quantity) + sumAmount(items, n - 1)

RECURSIVE sumQuantity(_, _)
\* quantity summed over lines 1..n
sumQuantity(items, n) ==
  IF n = 0 THEN 0 ELSE items[n].quantity + sumQuantity(items, n - 1)

RECURSIVE sumSubtotal(_, _)
\* subtotal summed over lines 1..n
sumSubtotal(items, n) ==
  IF n = 0 THEN 0 ELSE items[n].subtotal + sumSubtotal(items, n - 1)

\* C1: every persisted cart has totalAmount equal to the sum of
\* price * quantity over its lines and itemCount equal to the sum of the
\* line quantities, whatever add / update / remove / clear requests ran.
C1_CartTotals ==
  \A u \in Users :
    carts[u].exists =>
      /\ carts[u].totalAmount =
           sumAmount(carts[u].items, Len(carts[u].items))
      /\ carts[u].itemCount =
           sumQuantity(carts[u].items, Len(carts[u].items))

\* a cart of two lines, one of them with a quantity above 1, after an update
C1_Witness ==
  \E u \in Users :
    /\ resp.op = "updateCart" /\ resp.code = 200 /\ resp.actor = u
    /\ Len(carts[u].items) = 2
    /\ \E i \in 1..2 : carts[u].items[i].quantity >= 2

\* C2: a cancelOrder call succeeds exactly when the order was pending or
\* confirmed; it then leaves the order cancelled with the reason stored,
\* and otherwise fails leaving status, cancellationReason and statusHistory
\* as they were.
C2_CancelOrderGate ==
  [][(resp'.op = "cancelOrder" /\ resp'.code # 403) =>
       LET before == orders[resp'.id]
           after == orders'[resp'.id]
       IN IF before.status \in {"pending", "confirmed"}
          THEN /\ resp'.code = 200
               /\ after.status = "cancelled"
               /\ after.cancellationReason = trim(resp'.arg)
          ELSE /\ resp'.code = 400
               /\ after.status = before.status
               /\ after.cancellationReason = before.cancellationReason
               /\ after.statusHistory = before.statusHistory]_vars

\* an order cancelled by a cancel request that carried the reason " busy "
C2_Witness ==
  /\ resp.op = "cancelOrder" /\ resp.code = 200 /\ resp.arg = " busy "
  /\ orders[resp.id].status = "cancelled"
  /\ orders[resp.id].cancellationReason = "busy"

\* C3: whichever request changes an order's status, the status becomes
\* cancelled only from pending or confirmed.
C3_CancelledOnlyFromOpen ==
  [][\A id \in DOMAIN orders :
       (orders'[id].status = "cancelled" /\ orders[id].status # "cancelled")
         => orders[id].status \in {"pending", "confirmed"}]_vars

\* C4: delivered and cancelled are terminal: no request changes the status
\* of an order that is delivered or cancelled.
C4_TerminalStates ==
  [][\A id \in DOMAIN orders :
       orders[id].status \in {"delivered", "cancelled"}
         => orders'[id].status = orders[id].status]_vars

\* C5: an addRating call succeeds exactly when the order is delivered, and
\* then stores the rating; on any other status it fails and leaves rating,
\* status and statusHistory as they were.
C5_AddRatingGate ==
  [][(resp'.op = "rateOrder" /\ resp'.code # 403) =>
       LET before == orders[resp'.id]
           after == orders'[resp'.id]
       IN IF before.status = "delivered"
          THEN /\ resp'.code = 200
               /\ after.rating.rated
               /\ after.rating.overall = resp'.arg.overall
               /\ after.rating.food = resp'.arg.food
               /\ after.rating.delivery = resp'.arg.delivery
          ELSE /\ resp'.code = 400
               /\ after.rating = before.rating
               /\ after.status = before.status
               /\ after.statusHistory = before.statusHistory]_vars

\* a delivered order that its owner has rated
C5_Witness ==
  /\ resp.op = "rateOrder" /\ resp.code = 200
  /\ orders[resp.id].status = "delivered"
  /\ orders[resp.id].rating.rated
  /\ orders[resp.id].rating.overall = 1

\* C7: every updateStatus call on a persisted Order, MaintenanceRequest or
\* OutpassRequest appends exactly one statusHistory entry, carrying the new
\* status and the supplied actor, and keeps the earlier entries as they were.
C7_AppendOnly ==
  [][/\ (resp'.op = "updateOrderStatus" /\ resp'.code # 403) =>
          LET old == orders[resp'.id].statusHistory
              new == orders'[resp'.id].statusHistory
          IN /\ resp'.code = 200
             /\ Len(new) = Len(old) + 1
             /\ SubSeq(new, 1, Len(old)) = old
             /\ new[Len(new)].status = resp'.arg
             /\ new[Len(new)].updatedBy = resp'.actor
             /\ orders'[resp'.id].status = resp'.arg
     /\ resp'.op = "maintenanceUpdateStatus" =>
          LET old == maint[resp'.id].statusHistory
              new == maint'[resp'.id].statusHistory
          IN /\ resp'.code = 200
             /\ Len(new) = Len(old) + 1
             /\ SubSeq(new, 1, Len(old)) = old
             /\ new[Len(new)].status = resp'.arg
             /\ new[Len(new)].changedBy = resp'.actor
             /\ maint'[resp'.id].status = resp'.arg
     /\ resp'.op = "outpassUpdateStatus" =>
          LET old == outpass[resp'.id].statusHistory
              new == outpass'[resp'.id].statusHistory
          IN /\ resp'.code = 200
             /\ Len(new) = Len(old) + 1
             /\ SubSeq(new, 1, Len(old)) = old
             /\ new[Len(new)].status = resp'.arg
             /\ new[Len(new)].changedBy = resp'.actor
             /\ outpass'[resp'.id].status = resp'.arg]_vars

\* an outpass request after two updateStatus calls: three history entries
C7_Witness ==
  /\ resp.op = "outpassUpdateStatus" /\ resp.code = 200
  /\ Len(outpass[resp.id].statusHistory) = 3
  /\ outpass[resp.id].statusHistory[1].status = "pending"
  /\ outpass[resp.id].statusHistory[2].status = "approved"
  /\ outpass[resp.id].statusHistory[3].status = "checked_out"
  /\ outpass[resp.id].statusHistory[3].changedBy = "adm"

\* C8: every order has finalAmount = totalAmount + deliveryFee -
\* discount.amount when it is created, and no later status update, cancel or
\* rating request changes finalAmount, totalAmount, deliveryFee or the items.
C8_FinalAmountFixed ==
  [][/\ \A id \in DOMAIN orders' :
          orders'[id].finalAmount =
            orders'[id].totalAmount + orders'[id].deliveryFee
              - orders'[id].discountAmount
     /\ \A id \in DOMAIN orders :
          /\ orders'[id].finalAmount = orders[id].finalAmount
          /\ orders'[id].totalAmount = orders[id].totalAmount
          /\ orders'[id].deliveryFee = orders[id].deliveryFee
          /\ orders'[id].items = orders[id].items]_vars

\* an order that pays the delivery fee, delivered and then rated
C8_Witness ==
  /\ resp.op = "rateOrder" /\ resp.code = 200
  /\ orders[resp.id].deliveryFee = DeliveryFee
  /\ orders[resp.id].finalAmount = 70
  /\ Len(orders[resp.id].statusHistory) >= 2

\* C9: every order placed from a cart has at least one line, each line's
\* subtotal is its price * quantity, totalAmount is the sum of the
\* subtotals, and deliveryFee is 0 from a total of 100 on and 20 below it;
\* lines 50 x 2 and 30 x 1 give totalAmount 130, deliveryFee 0, final 130.
C9_OrderTotals ==
  \A id \in DOMAIN orders :
    LET order == orders[id]
    IN /\ Len(order.items) >= 1
       /\ \A i \in 1..Len(order.items) :
            order.items[i].subtotal =
              order.items[i].price * order.items[i].quantity
       /\ order.totalAmount =
            sumSubtotal(order.items, Len(order.items))
       /\ order.deliveryFee = (IF order.totalAmount >= 100 THEN 0 ELSE 20)
       /\ (/\ Len(order.items) = 2
           /\ \E i, j \in 1..2 :
                /\ order.items[i].price = 50 /\ order.items[i].quantity = 2
                /\ order.items[j].price = 30 /\ order.items[j].quantity = 1)
            => /\ order.totalAmount = 130
               /\ order.deliveryFee = 0
               /\ order.finalAmount = 130

\* the order of the scenario: lines 50 x 2 and 30 x 1, just placed
C9_Witness ==
  /\ resp.op = "placeOrder" /\ resp.code = 201
  /\ Len(orders[resp.id].items) = 2
  /\ orders[resp.id].items[1].subtotal = 100
  /\ orders[resp.id].items[2].subtotal = 30
  /\ orders[resp.id].totalAmount = 130

\* C10: a successful placement adds each cart line's quantity to the
\* orderCount of its menu item, takes it from the item's stock when the
\* stock is finite, keeps an unlimited stock at -1, and leaves the user's
\* cart empty with totalAmount 0 and itemCount 0.
C10_PlacementLedger ==
  [][(resp'.op = "placeOrder" /\ resp'.code = 201) =>
       LET u == resp'.actor
           lines == carts[u].items
       IN /\ \A i \in 1..Len(lines) :
               LET m == lines[i].menuItem
               IN /\ menu'[m].orderCount
                       = menu[m].orderCount + lines[i].quantity
                  /\ menu[m].stock # -1 =>
                       menu'[m].stock = menu[m].stock - lines[i].quantity
                  /\ menu[m].stock = -1 => menu'[m].stock = -1
          /\ carts'[u].items = <<>>
          /\ carts'[u].totalAmount = 0
          /\ carts'[u].itemCount = 0]_vars

\* a placement that took a finite-stock item and an unlimited one
C10_Witness ==
  /\ resp.op = "placeOrder" /\ resp.code = 201
  /\ Len(orders[resp.id].items) = 2
  /\ menu["m1"].stock = 0 /\ menu["m1"].orderCount = 2
  /\ menu["m2"].stock = -1 /\ menu["m2"].orderCount = 1
  /\ carts[resp.actor].items = <<>>

\* C11: under any interleaving of placements no two persisted orders share
\* an orderNumber; a placement whose number is already persisted when it
\* inserts fails and creates no order.
C11_UniqueOrderNumber ==
  [][/\ \A i, j \in DOMAIN orders' :
          i # j => orders'[i].orderNumber # orders'[j].orderNumber
     /\ \A u \in Placers :
          (/\ placing[u].pc = "numbered"
           /\ placing'[u].pc # "numbered"
           /\ \E i \in DOMAIN orders :
                orders[i].orderNumber = placing[u].orderNumber)
            => /\ orders' = orders
               /\ resp'.op = "placeOrder" /\ resp'.code = 500
               /\ resp'.actor = u]_vars

\* two placements counted the day's orders before either inserted: one is
\* persisted, and the other has just failed with the same number
C11_Witness ==
  /\ resp.op = "placeOrder" /\ resp.code = 500
  /\ Len(orders) = 1
  /\ orders[1].orderNumber = resp.arg
  /\ orders[1].user # resp.actor

\* C12: after any sequence or interleaving of rating submissions there is
\* at most one MealRating document per (user, menuId); a submission whose
\* pair already has a document adds none, and a repeat submission (one that
\* loaded the document as it is stored) leaves that document holding the
\* submitted fields.
C12_OneRatingPerPair ==
  [][/\ \A i, j \in DOMAIN ratings' :
          (/\ ratings'[i].user = ratings'[j].user
           /\ ratings'[i].menuId = ratings'[j].menuId) => i = j
     /\ \A t \in Tabs :
          (/\ submitting[t].pc = "looked"
           /\ submitting'[t].pc # "looked"
           /\ \E i \in DOMAIN ratings :
                /\ ratings[i].user = submitting[t].user
                /\ ratings[i].menuId = submitting[t].body.menuId)
            => /\ Len(ratings') = Len(ratings)
               /\ (/\ submitting[t].found > 0
                   /\ ratings[submitting[t].found] = submitting[t].loaded) =>
                    LET doc == ratings'[submitting[t].found]
                        body == submitting[t].body
                    IN /\ doc.user = submitting[t].user
                       /\ doc.menuId = body.menuId
                       /\ doc.taste = body.taste
                       /\ doc.quality = body.quality
                       /\ doc.quantity = body.quantity]_vars

\* a second submission of the same user and menu has just replaced the
\* fields of the one stored document
C12_Witness ==
  /\ resp.op = "submitRating" /\ resp.arg = "save" /\ resp.code = 0
  /\ Len(ratings) = 1
  /\ \E t \in Tabs :
       /\ submitting[t].pc = "saved"
       /\ submitting[t].found = 1
       /\ submitting[t].loaded.taste = 4
       /\ ratings[1].taste = 5
       /\ ratings[1].quality = Absent
       /\ ratings[1].rating = 1

\* C13: a newly created MaintenanceRequest has status pending and exactly
\* one statusHistory entry, pending and attributed to the requester; an
\* updateStatus to completed right after leaves status completed,
\* actualCompletionDate set and two history entries; an updateStatus to any
\* other status leaves actualCompletionDate as it was.
C13_MaintenanceCreation ==
  [][/\ (resp'.op = "createMaintenance" /\ resp'.code = 201) =>
          LET doc == maint'[resp'.id]
          IN /\ Len(maint') = Len(maint) + 1
             /\ doc.status = "pending"
             /\ doc.requestedBy = resp'.actor
             /\ Len(doc.statusHistory) = 1
             /\ doc.statusHistory[1].status = "pending"
             /\ doc.statusHistory[1].changedBy = resp'.actor
             /\ doc.actualCompletionDate = NoDate
     /\ (resp'.op = "maintenanceUpdateStatus" /\ resp'.code = 200) =>
          LET before == maint[resp'.id]
              after == maint'[resp'.id]
          IN IF resp'.arg = "completed"
             THEN /\ after.status = "completed"
                  /\ after.actualCompletionDate # NoDate
                  /\ Len(before.statusHistory) = 1 =>
                       Len(after.statusHistory) = 2
             ELSE after.actualCompletionDate = before.actualCompletionDate]_vars

\* a request completed right after its creation, by a member of staff
C13_Witness ==
  /\ resp.op = "maintenanceUpdateStatus" /\ resp.code = 200
  /\ resp.arg = "completed" /\ resp.actor = "adm"
  /\ maint[resp.id].status = "completed"
  /\ maint[resp.id].actualCompletionDate # NoDate
  /\ Len(maint[resp.id].statusHistory) = 2
  /\ maint[resp.id].statusHistory[1].changedBy = "stu1"

\* C14: an outpass review (approve or reject) succeeds only when the
\* request is pending or under_review; from any other status it is
\* rejected and status, reviewedBy, reviewedAt, reviewNotes and
\* statusHistory stay as they were.
C14_ReviewGate ==
  [][(/\ resp'.op = "reviewOutpass"
      /\ resp'.arg \in {"approved", "rejected"}
      /\ resp'.id \in DOMAIN outpass
      /\ resp'.code # 403) =>
       LET before == outpass[resp'.id]
           after == outpass'[resp'.id]
       IN IF before.status \in {"pending", "under_review"}
          THEN /\ resp'.code = 200
               /\ after.status = resp'.arg
               /\ after.reviewedBy = resp'.actor
               /\ after.reviewedAt = now
          ELSE /\ resp'.code = 400
               /\ after.status = before.status
               /\ after.reviewedBy = before.reviewedBy
               /\ after.reviewedAt = before.reviewedAt
               /\ after.reviewNotes = before.reviewNotes
               /\ after.statusHistory = before.statusHistory]_vars

\* a review turned down on a request that is already checked out
C14_Witness ==
  /\ resp.op = "reviewOutpass" /\ resp.code = 400 /\ resp.arg = "rejected"
  /\ resp.id \in DOMAIN outpass
  /\ outpass[resp.id].status = "checked_out"
  /\ outpass[resp.id].reviewedBy = "adm"
  /\ Len(outpass[resp.id].statusHistory) = 3

\* C15: isOverdue is true exactly when the status is checked_out and the
\* current time is later than the scheduled return (inDate at inTime); for
\* every other status it is false whatever the time.
C15_IsOverdue ==
  resp.op = "isOverdue" =>
    LET doc == outpass[resp.id]
    IN /\ resp.arg = (/\ doc.status = "checked_out"
                      /\ now > (doc.inDate * 24) + doc.inTime)
       /\ doc.status # "checked_out" => resp.arg = FALSE

\* a checked-out request read after its return time
C15_Witness ==
  /\ resp.op = "isOverdue" /\ resp.arg = TRUE
  /\ outpass[resp.id].status = "checked_out"
  /\ now = 3

\* C16: on every save of an OutpassRequest, duration.days and
\* duration.hours are the integer day / hour split of (in-instant minus
\* out-instant): days * 24 + hours is the whole number of hours of the
\* difference and 0 <= hours <= 23, for every pair of instants the data
\* layer accepts, an in-instant not after the out-instant included; out day
\* 0 at 10:00 and in day 1 at 14:00 give days 1, hours 4.
C16_DurationSplit ==
  \A id \in DOMAIN outpass :
    LET doc == outpass[id]
        diff == ((doc.inDate * 24) + doc.inTime)
                  - ((doc.outDate * 24) + doc.outTime)
    IN /\ (doc.duration.days * 24) + doc.duration.hours = diff
       /\ doc.duration.hours >= 0
       /\ doc.duration.hours <= 23
       /\ (/\ doc.outDate = 0 /\ doc.outTime = 10
           /\ doc.inDate = 1 /\ doc.inTime = 14)
            => doc.duration = [days |-> 1, hours |-> 4]

\* C17: on every save of a MealRating document, when taste, quality and
\* quantity are all present the stored rating is the mean of the three
\* rounded to the nearest integer (it differs from sum / 3 by less than one
\* half, so 3 * rating is within 1 of the sum); otherwise the supplied
\* rating is stored unchanged.
C17_RatingFromScores ==
  [][\A t \in Tabs :
       (/\ submitting[t].pc = "looked"
        /\ submitting'[t].pc = "saved") =>
         LET doc == ratings'[resp'.id]
             sum == doc.taste + doc.quality + doc.quantity
         IN IF /\ doc.taste # Absent
               /\ doc.quality # Absent
               /\ doc.quantity # Absent
            THEN /\ (3 * doc.rating) - sum >= -1
                 /\ (3 * doc.rating) - sum <= 1
            ELSE doc.rating = submitting[t].body.rating]_vars

\* a save has just stored rating 4 for scores 4, 4, 3 although the request
\* supplied rating 1
C17_Witness ==
  /\ resp.op = "submitRating" /\ resp.arg = "save" /\ resp.code = 0
  /\ submitting[1].pc = "saved"
  /\ submitting[1].body.rating = 1
  /\ ratings[resp.id].taste = 4
  /\ ratings[resp.id].quality = 4
  /\ ratings[resp.id].quantity = 3
  /\ ratings[resp.id].rating = 4

RECURSIVE sameLinesBut(_, _, _, _)
\* the lines of after are the lines 1..n of before without line i, in order
sameLinesBut(before, after, i, n) ==
  IF n = 0 THEN TRUE
  ELSE /\ sameLinesBut(before, after, i, n - 1)
       /\ n < i => after[n] = before[n]
       /\ n > i => after[n - 1] = before[n]

\* C18: Cart.updateItemQuantity with quantity <= 0 removes the matching
\* line and with quantity > 0 sets that line's quantity to the given value;
\* updateItemQuantity and removeItem on a menu item that has no line in the
\* cart fail (the thrown 'Item not found in cart') and leave the cart's
\* items, totalAmount and itemCount unchanged.
C18_UpdateItemQuantity ==
  [][LET u == resp'.actor
         m == resp'.arg
         q == resp'.id
         cart == carts[u]
         after == carts'[u]
         i == findIndex(cart.items, m)
     IN /\ (/\ resp'.op = "updateCartText"
             /\ resp'.code \in {200, 500}
             /\ i > 0) =>
              IF q <= 0
              THEN /\ resp'.code = 200
                   /\ Len(after.items) = Len(cart.items) - 1
                   /\ findIndex(after.items, m) = 0
                   /\ sameLinesBut(cart.items, after.items, i,
                                   Len(cart.items))
              ELSE resp'.code = 200 =>
                     /\ Len(after.items) = Len(cart.items)
                     /\ after.items[i].quantity = q
                     /\ after.items[i].menuItem = m
                     /\ \A k \in 1..Len(cart.items) :
                          k # i => after.items[k] = cart.items[k]
        /\ (/\ resp'.op \in {"updateCartText", "updateCart",
                              "removeFromCart"}
             /\ resp'.code \in {200, 500}
             /\ i = 0) =>
              /\ resp'.code = 500
              /\ after.items = cart.items
              /\ after.totalAmount = cart.totalAmount
              /\ after.itemCount = cart.itemCount]_vars

\* an update with quantity "0" has just removed one of two lines
C18_Witness ==
  /\ resp.op = "updateCartText" /\ resp.code = 200 /\ resp.id = 0
  /\ Len(carts[resp.actor].items) = 1
  /\ carts[resp.actor].items[1].menuItem # resp.arg

\* C19: after any sequence of registerForEvent and unregisterFromEvent
\* calls on an announcement, a registration succeeds only if the category
\* is event, the user is not already registered and, when a cap is set,
\* the number of registered participants is below maxParticipants; so no
\* user appears twice in registeredParticipants and, when a cap is set,
\* their number never exceeds maxParticipants.
C19_EventRegistration ==
  [][/\ (resp'.op = "register" /\ resp'.code = 200) =>
          LET doc == announcements[resp'.id]
              ev == doc.eventDetails
              before == ev.registeredParticipants
              after ==
                announcements'[resp'.id].eventDetails.registeredParticipants
          IN /\ doc.category = "event"
             /\ \A k \in DOMAIN before : before[k] # resp'.actor
             /\ ev.maxParticipants # NoCap =>
                  Len(before) < ev.maxParticipants
             /\ after = Append(before, resp'.actor)
     /\ \A id \in DOMAIN announcements' :
          LET ev == announcements'[id].eventDetails
              after == ev.registeredParticipants
          IN /\ \A j, k \in DOMAIN after : after[j] = after[k] => j = k
             /\ ev.maxParticipants # NoCap =>
                  Len(after) <= ev.maxParticipants]_vars

\* a registration has just been refused because the event is full
C19_Witness ==
  /\ resp.op = "register" /\ resp.code = 400
  /\ LET doc == announcements[resp.id]
         participants == doc.eventDetails.registeredParticipants
     IN /\ doc.category = "event"
        /\ doc.eventDetails.registrationRequired
        /\ doc.eventDetails.maxParticipants = 1
        /\ Len(participants) = 1
        /\ \A k \in DOMAIN participants : participants[k] # resp.actor

\* C20: every persisted announcement whose category is emergency has
\* priority urgent, after creation and after any later update.
C20_EmergencyIsUrgent ==
  \A id \in DOMAIN announcements :
    announcements[id].category = "emergency" =>
      announcements[id].priority = "urgent"

\* C21: Announcement.markAsRead is idempotent per reader: after any
\* sequence of markAsRead calls each user appears at most once in readBy
\* and views has increased by exactly the number of distinct users who
\* called it; a repeat call by the same user changes nothing.
C21_MarkAsReadIdempotent ==
  \A id \in DOMAIN announcements :
    LET readBy == announcements[id].readBy
    IN /\ \A j, k \in DOMAIN readBy : readBy[j] = readBy[k] => j = k
       /\ announcements[id].views
            = Cardinality({readBy[k] : k \in DOMAIN readBy})

\* C22: OutpassRequest.checkOverdueStatus changes the document only when
\* status is checked_out and the return instant has passed: it then sets
\* status to overdue and appends exactly one statusHistory entry; in every
\* other case it leaves status and statusHistory unchanged, so a second
\* call right after a transition to overdue is a no-op.
C22_CheckOverdueStatus ==
  [][resp'.op = "checkOverdue" =>
       LET doc == outpass[resp'.id]
           after == outpass'[resp'.id]
           n == Len(doc.statusHistory)
       IN /\ \A k \in DOMAIN outpass : k # resp'.id => outpass'[k] = outpass[k]
          /\ IF /\ doc.status = "checked_out"
                /\ now > (doc.inDate * 24) + doc.inTime
             THEN /\ after.status = "overdue"
                  /\ Len(after.statusHistory) = n + 1
                  /\ SubSeq(after.statusHistory, 1, n) = doc.statusHistory
                  /\ after.statusHistory[n + 1].status = "overdue"
             ELSE /\ after = doc
                  /\ resp'.arg = FALSE
          /\ (resp.op = "checkOverdue" /\ resp.id = resp'.id
                /\ resp.arg = TRUE) => after = doc]_vars

\* a sweep has just moved a checked-out request past its return time to
\* overdue
C22_Witness ==
  /\ resp.op = "checkOverdue" /\ resp.arg = TRUE /\ resp.code = 200
  /\ outpass[resp.id].status = "overdue"
  /\ Len(outpass[resp.id].statusHistory) >= 3

\* C23: Cart.addItem for a menu item that already has a line adds the
\* quantity to that line and replaces the line's specialInstructions with
\* the newly supplied value (last write wins), creating no second line; for
\* a menu item with no line it appends one new line with the given
\* quantity, price and specialInstructions.
C23_AddItem ==
  [][(resp'.op = "addToCartBody" /\ resp'.code = 200) =>
       LET before == carts[resp'.actor].items
           after == carts'[resp'.actor].items
           m == resp'.arg.menuItemId
           si == resp'.arg.specialInstructions
           i == findIndex(before, m)
       IN IF i > 0
          THEN /\ Len(after) = Len(before)
               /\ after[i].menuItem = m
               /\ after[i].quantity = before[i].quantity + resp'.id
               /\ after[i].specialInstructions = si
               /\ \A k \in DOMAIN before : k # i => after[k] = before[k]
          ELSE after = Append(before,
                              [menuItem |-> m, quantity |-> resp'.id,
                               price |-> menu[m].price,
                               specialInstructions |-> si])]_vars

\* C24: when order placement is rejected before the order is persisted
\* (cart missing or empty, a cart item inactive or unavailable, or a
\* finite-stock item with stock below the line quantity), no order is
\* created, no menu item's stock or orderCount changes, and the cart is
\* left unchanged.
C24_RejectedPlacement ==
  [][resp'.op = "placeOrder" =>
       LET cart == carts[resp'.actor]
           rejected ==
             \/ ~cart.exists
             \/ cart.items = <<>>
             \/ \E i \in DOMAIN cart.items :
                  LET menuItem == menu[cart.items[i].menuItem]
                  IN \/ ~menuItem.isActive
                     \/ ~menuItem.isAvailable
                     \/ /\ menuItem.stock # -1
                        /\ menuItem.stock < cart.items[i].quantity
       IN rejected => /\ resp'.code = 400
                      /\ orders' = orders
                      /\ menu' = menu
                      /\ carts' = carts]_vars

\* a placement has just been refused for a line of 2 with 1 in stock
C24_Witness ==
  /\ resp.op = "placeOrder" /\ resp.code = 400
  /\ orders = <<>>
  /\ menu["m1"].stock = 1 /\ menu["m1"].isAvailable
  /\ \E i \in DOMAIN carts[resp.actor].items :
       /\ carts[resp.actor].items[i].menuItem = "m1"
       /\ carts[resp.actor].items[i].quantity = 2

\* C25: an order's status and statusHistory change only through a status
\* update requested by an admin or canteen_owner or a cancel requested by
\* the order's owner, an admin or a canteen_owner, and its rating changes
\* only through a request by its owner; a status, cancel or rate request
\* from any other user is answered with Forbidden and leaves the order
\* unchanged.
C25_OrderAuthorization ==
  [][\A id \in DOMAIN orders :
       LET order == orders[id]
           after == orders'[id]
           actor == resp'.actor
           staff == role(actor) \in {"admin", "canteen_owner"}
           owner == actor = order.user
           statusReq == resp'.id = id /\ resp'.op = "updateOrderStatus"
           cancelReq == resp'.id = id /\ resp'.op = "cancelOrder"
           rateReq == resp'.id = id /\ resp'.op = "rateOrder"
       IN /\ (\/ after.status # order.status
               \/ after.statusHistory # order.statusHistory) =>
                \/ (statusReq /\ staff)
                \/ (cancelReq /\ (owner \/ staff))
          /\ after.rating # order.rating => (rateReq /\ owner)
          /\ (\/ (statusReq /\ ~staff)
               \/ (cancelReq /\ ~owner /\ ~staff)
               \/ (rateReq /\ ~owner)) =>
                (resp'.code = 403 /\ after = order)]_vars

\* an admin's rating of a student's delivered order has just been refused
C25_Witness ==
  /\ resp.op = "rateOrder" /\ resp.code = 403
  /\ role(resp.actor) = "admin"
  /\ orders[resp.id].status = "delivered"
  /\ orders[resp.id].user # resp.actor
  /\ ~orders[resp.id].rating.rated

\* ---------------------------------------------------------------------
\* POST /api/cart/add, one step per await, two requests of one user in
\* flight.  The route reads the menu item, reads the cart (or builds a new
\* one), and addItem saves it.  What save() writes depends on what the
\* request changed in the document it read:
\*   a new Cart        an insert, refused when the user already has a cart
\*                     (user is a unique index);
\*   a pushed line     $push of the line, $set of the totals, __v + 1, and
\*                     no condition on __v;
\*   an existing line  $set of items.<index>.quantity and of the totals,
\*                     on the condition that __v is still the one read.

MaxLines == 2        \* cap on the number of lines of a cart in this run

\* every save increments __v (as with optimisticConcurrency)
versionAfterAlways(pushed, version) == version + 1

\* __v after a save: an array push increments it, a positional set does not
versionAfter(pushed, version) == IF pushed THEN version + 1 ELSE version

\* the condition save() puts on __v: only a positional set carries one
versionMatches(pushed, loadedVersion, storedVersion) ==
  pushed \/ loadedVersion = storedVersion

\* the other requests of the same user that hold a read of the cart learn
\* of a write made to it
noteWrite(t, u, menuItemId, pushed) ==
  [x \in Tabs |->
     IF x # t /\ adding[x].pc = "loaded" /\ adding[x].user = u
     THEN [adding[x] EXCEPT
             !.since = @ \cup {[menuItemId |-> menuItemId,
                                pushed |-> pushed]}]
     ELSE IF x = t THEN [adding[t] EXCEPT !.pc = "saved"]
     ELSE adding[x]]

\* const menuItem = await MenuItem.findById(menuItemId), and its checks
AddBegin(t, u, menuItemId, quantity) ==
  LET menuItem == menu[menuItemId]
  IN /\ adding[t].pc = "idle"
     /\ IF ~menuItem.isActive \/ ~menuItem.isAvailable
        THEN /\ resp' = Response("addStep", 404, 0, u, "checked")
             /\ UNCHANGED adding
        ELSE IF menuItem.stock # -1 /\ menuItem.stock < quantity
        THEN /\ resp' = Response("addStep", 400, 0, u, "checked")
             /\ UNCHANGED adding
        ELSE /\ adding' = [adding EXCEPT ![t] =
                  [IdleAdd EXCEPT !.pc = "checked", !.user = u,
                                  !.menuItemId = menuItemId,
                                  !.quantity = quantity]]
             /\ resp' = Response("addStep", 0, t, u, "checked")
     /\ UNCHANGED <<canteenVars, lifecycleVars, serviceVars, placing,
                    submitting, cartVersion, reviewing,
                    clientVars>>

\* let cart = await Cart.findOne({ user: req.user._id })
AddFind(t) ==
  LET req == adding[t]
  IN /\ req.pc = "checked"
     /\ adding' = [adding EXCEPT ![t] =
          [req EXCEPT !.pc = "loaded", !.loaded = carts[req.user],
                      !.version = cartVersion[req.user]]]
     /\ resp' = Response("addStep", 0, t, req.user, "loaded")
     /\ UNCHANGED <<canteenVars, lifecycleVars, serviceVars, placing,
                    submitting, cartVersion, reviewing,
                    clientVars>>

\* await cart.addItem(menuItemId, quantity, menuItem.price, ...)
AddSave(t) ==
  LET req == adding[t]
      u == req.user
      inserted == ~req.loaded.exists
      cart == IF inserted THEN NewCart ELSE req.loaded
      index == findIndex(cart.items, req.menuItemId)
      pushed == index = 0
      res == addItem(cart, req.menuItemId, req.quantity,
                     menu[req.menuItemId].price, "")
      stored == carts[u]
      written ==
        IF inserted THEN res.doc
        ELSE [stored EXCEPT
                !.items = IF pushed
                          THEN Append(@, res.doc.items[Len(res.doc.items)])
                          ELSE [@ EXCEPT ![index].quantity =
                                           res.doc.items[index].quantity],
                !.totalAmount = res.doc.totalAmount,
                !.itemCount = res.doc.itemCount]
      accepted ==
        /\ res.ok
        /\ IF inserted THEN ~stored.exists
           ELSE versionMatches(pushed, req.version, cartVersion[u])
  IN /\ req.pc = "loaded"
     /\ Len(stored.items) + (IF pushed THEN 1 ELSE 0) <= MaxLines
     /\ \A i \in 1..Len(res.doc.items) :
          res.doc.items[i].quantity <= MaxLineQty
     /\ IF accepted
        THEN /\ carts' = [carts EXCEPT ![u] = written]
             /\ cartVersion' = [cartVersion EXCEPT ![u] =
                  IF inserted THEN 0 ELSE versionAfter(pushed, @)]
             /\ adding' = noteWrite(t, u, req.menuItemId, pushed)
             /\ resp' = Response("addStep", 0, t, u, "saved")
        ELSE /\ adding' = [adding EXCEPT ![t] = IdleAdd]
             /\ resp' = Response("addStep", 500, t, u, "saved")
             /\ UNCHANGED <<carts, cartVersion>>
     /\ UNCHANGED <<menu, orders, lifecycleVars, serviceVars, placing,
                    submitting, reviewing, clientVars>>

\* await cart.populate(...); res.json({ success: true, ... })
AddRespond(t) ==
  LET req == adding[t]
  IN /\ req.pc = "saved"
     /\ adding' = [adding EXCEPT ![t] = IdleAdd]
     /\ resp' = Response("addStep", 200, t, req.user, "answered")
     /\ UNCHANGED <<canteenVars, lifecycleVars, serviceVars, placing,
                    submitting, cartVersion, reviewing,
                    clientVars>>

NextAddRace ==
  \/ \E t \in Tabs, u \in Shoppers, m \in MenuItems, q \in 1..MaxQty :
       AddBegin(t, u, m, q)
  \/ \E t \in Tabs : AddFind(t)
  \/ \E t \in Tabs : AddSave(t)
  \/ \E t \in Tabs : AddRespond(t)

SpecAddRace == Init /\ [][NextAddRace]_vars

\* the request of tab t is interleaved with another add of the same user:
\* another request holds a read of the cart, or has written since t's read
interleavedAdd(t) ==
  \/ adding[t].since # {}
  \/ \E x \in Tabs \ {t} :
       adding[x].pc = "loaded" /\ adding[x].user = adding[t].user

\* C26 as stated: two interleaved add-to-cart requests of one user both
\* complete without error; no stale-read check rejects either of them.
C26_NoAddRejected ==
  [][\A t \in Tabs :
       (adding[t].pc = "loaded" /\ adding'[t].pc # "loaded"
          /\ interleavedAdd(t))
       => adding'[t].pc = "saved"]_vars

\* C26 amended: when both interleaved requests add to menu items that
\* already have a line in the cart they read, both complete without error,
\* and a request that saves after another one wrote the same line leaves
\* that line at the quantity it read plus its own (the other addition is
\* lost).
C26_ExistingLineLastWriteWins ==
  [][\A t \in Tabs :
       LET req == adding[t]
           index == findIndex(req.loaded.items, req.menuItemId)
       IN (req.pc = "loaded" /\ adding'[t].pc # "loaded"
             /\ interleavedAdd(t)
             /\ req.loaded.exists /\ index > 0
             /\ \A w \in req.since : ~w.pushed)
          => /\ adding'[t].pc = "saved"
             /\ carts'[req.user].items[index].quantity =
                  req.loaded.items[index].quantity + req.quantity]_vars

\* the second of two requests that read the same line has saved: the line
\* holds what this request read plus its own quantity, not both additions
C26_Witness ==
  \E t \in Tabs :
    LET req == adding[t]
        index == findIndex(req.loaded.items, req.menuItemId)
    IN /\ req.pc = "saved" /\ req.loaded.exists /\ index > 0
       /\ [menuItemId |-> req.menuItemId, pushed |-> FALSE] \in req.since
       /\ carts[req.user].items[index].quantity =
            req.loaded.items[index].quantity + req.quantity

\* ---------------------------------------------------------------------
\* the three status histories together: creation, updateStatus with valid
\* and invalid statuses, cancelOrder and checkOverdueStatus
NextHistory ==
  \/ \E u \in Shoppers, q \in 1..MaxQty : AddToCart(u, "m1", q, "")
  \/ \E u \in Shoppers : PlaceOrder(u)
  \/ \E id \in DOMAIN orders, s \in {"preparing", "delivered", "archived"} :
        UpdateOrderStatus("adm", id, s, "")
  \/ \E u \in Shoppers, id \in DOMAIN orders : CancelOrder(u, id, "late")
  \/ \E u \in Shoppers : CreateMaintenance(u)
  \/ \E id \in DOMAIN maint, s \in {"completed", "archived"} :
        MaintenanceUpdateStatus("adm", id, s, "")
  \/ \E u \in Shoppers : CreateOutpass(u, 0, 1, 0, 2)
  \/ \E id \in DOMAIN outpass, s \in {"checked_out", "archived"} :
        OutpassUpdateStatus("adm", id, s, "")
  \/ \E id \in DOMAIN outpass : CheckOverdueStatus(id)
  \/ Tick

SpecHistory == Init /\ [][NextHistory]_vars

\* the last statusHistory entry of every document of a collection carries
\* the document's status
historyTracksStatus(docs) ==
  \A i \in DOMAIN docs :
    /\ Len(docs[i].statusHistory) > 0
    /\ docs[i].statusHistory[Len(docs[i].statusHistory)].status
         = docs[i].status

\* C27: in every reachable state each order, maintenance request and
\* outpass request has a non-empty statusHistory whose last entry carries
\* the document's current status.
C27_HistoryTracksStatus ==
  /\ historyTracksStatus(orders)
  /\ historyTracksStatus(maint)
  /\ historyTracksStatus(outpass)

\* an order placed and then moved on by updateStatus, next to a freshly
\* created maintenance request
C27_Witness ==
  /\ resp.op = "updateOrderStatus" /\ resp.code = 200
  /\ Len(orders[resp.id].statusHistory) = 2
  /\ orders[resp.id].status = resp.arg
  /\ Len(maint) > 0

RECURSIVE orderedQuantity(_, _, _)
\* the quantity of a menu item over the persisted orders i..Len(docs)
orderedQuantity(docs, i, menuItemId) ==
  IF i > Len(docs) THEN 0
  ELSE reduceCount(SelectSeq(docs[i].items,
                             LAMBDA l : l.menuItem = menuItemId), 1, 0)
         + orderedQuantity(docs, i + 1, menuItemId)

\* C28: for a menu item with finite stock, however the placements of
\* different users interleave, the quantity of the item over all persisted
\* orders never exceeds its initial stock and its stock never drops below 0.
C28_NoOverselling ==
  \A m \in MenuItems :
    InitMenu[m].stock # Unlimited
      => /\ orderedQuantity(orders, 1, m) <= InitMenu[m].stock
         /\ menu[m].stock >= 0

\* ---------------------------------------------------------------------
\* PUT /api/outpass/request/:id/review, one step per await, two requests
\* in flight.  updateStatus changes the document the request read; save()
\* sends a $push of the new statusHistory entry and a $set of the other
\* paths it assigned, neither conditioned on what the stored document
\* holds by then.

\* const request = await OutpassRequest.findById(id), and the gate
ReviewLoad(t, u, id, status, reviewNotes) ==
  /\ reviewing[t].pc = "idle"
  /\ IF ~requireWarden(u)
     THEN /\ resp' = Response("reviewStep", 403, id, u, status)
          /\ UNCHANGED reviewing
     ELSE IF status \notin {"approved", "rejected"}
     THEN /\ resp' = Response("reviewStep", 400, id, u, status)
          /\ UNCHANGED reviewing
     ELSE IF id \notin DOMAIN outpass
     THEN /\ resp' = Response("reviewStep", 404, id, u, status)
          /\ UNCHANGED reviewing
     ELSE IF ~reviewGate(outpass[id])
     THEN /\ resp' = Response("reviewStep", 400, id, u, status)
          /\ UNCHANGED reviewing
     ELSE /\ reviewing' = [reviewing EXCEPT ![t] =
               [pc |-> "loaded", user |-> u, id |-> id, status |-> status,
                notes |-> reviewNotes, loaded |-> outpass[id]]]
          /\ resp' = Response("reviewStep", 0, id, u, "loaded")
  /\ UNCHANGED <<canteenVars, lifecycleVars, serviceVars, placing,
                 submitting, adding, cartVersion,
                 clientVars>>

\* await request.updateStatus(status, req.user.id, reviewNotes)
ReviewSave(t) ==
  LET req == reviewing[t]
      res == outpassUpdateStatus(req.loaded, req.status, req.user, req.notes)
      doc == res.doc
      stored == outpass[req.id]
      written ==
        [stored EXCEPT
           !.statusHistory =
              Append(@, doc.statusHistory[Len(doc.statusHistory)]),
           !.status = doc.status,
           !.reviewedBy = doc.reviewedBy,
           !.reviewedAt = doc.reviewedAt,
           !.reviewNotes =
              IF doc.reviewNotes # req.loaded.reviewNotes
              THEN doc.reviewNotes ELSE @]
  IN /\ req.pc = "loaded"
     /\ HistTotal < MaxHist
     /\ IF res.ok
        THEN /\ outpass' = [outpass EXCEPT ![req.id] = written]
             /\ reviewing' = [reviewing EXCEPT ![t].pc = "saved"]
             /\ resp' = Response("reviewStep", 0, req.id, req.user, "saved")
        ELSE /\ reviewing' = [reviewing EXCEPT ![t] = IdleReview]
             /\ resp' = Response("reviewStep", 500, req.id, req.user,
                                 "saved")
             /\ UNCHANGED outpass
     /\ UNCHANGED <<canteenVars, maint, now, serviceVars, placing,
                    submitting, adding, cartVersion,
                 clientVars>>

\* await request.populate([...]); res.json({ success: true, ... })
ReviewRespond(t) ==
  LET req == reviewing[t]
  IN /\ req.pc = "saved"
     /\ reviewing' = [reviewing EXCEPT ![t] = IdleReview]
     /\ resp' = Response("reviewStep", 200, req.id, req.user, req.status)
     /\ UNCHANGED <<canteenVars, lifecycleVars, serviceVars, placing,
                    submitting, adding, cartVersion,
                 clientVars>>

NextReviewRace ==
  \/ \E u \in Shoppers : CreateOutpass(u, 0, 1, 0, 2)
  \/ \E t \in Tabs, u \in Reviewers, id \in 1..(Len(outpass) + 1),
        s \in {"approved", "rejected"}, n \in ReviewNotes :
        ReviewLoad(t, u, id, s, n)
  \/ \E t \in Tabs : ReviewSave(t)
  \/ \E t \in Tabs : ReviewRespond(t)
  \/ Tick

SpecReviewRace == Init /\ [][NextReviewRace]_vars

\* the statusHistory entries of a request that record a review decision
decisions(doc) ==
  {i \in DOMAIN doc.statusHistory :
     doc.statusHistory[i].status \in {"approved", "rejected"}}

\* C29: however concurrent review requests for one outpass request
\* interleave, its statusHistory never holds more than one approved or
\* rejected entry, and reviewedBy / reviewedAt, once set, are not set again.
C29_OneReviewDecision ==
  [][\A id \in DOMAIN outpass :
       /\ Cardinality(decisions(outpass'[id])) <= 1
       /\ outpass[id].reviewedBy # None
            => /\ outpass'[id].reviewedBy = outpass[id].reviewedBy
               /\ outpass'[id].reviewedAt = outpass[id].reviewedAt]_vars

\* ---------------------------------------------------------------------
\* The mobile client's ApiService (src/services/api.js): the token store
\* and one request call at a time, a step per fetch.  A fetch answers with
\* an HTTP status, or throws (status 0: no connection).

FetchStatuses == {0, 200, 400, 401, 403, 500}

\* the endpoints asked for: getProfile() and the request inside logout()
Endpoints == {"/auth/profile", "/auth/logout"}

\* what POST /auth/refresh answers: a status and, when it is 200, tokens
RefreshAnswers ==
  [status : {0, 200, 401}, accessToken : {"a2"}, refreshToken : {None, "r2"}]

SessionExpired == "Session expired. Please login again."

\* ApiService.storeTokens
storeTokens(st, accessToken, refreshToken) ==
  [st EXCEPT !.accessToken = accessToken,
             !.refreshToken = IF refreshToken # None THEN refreshToken ELSE @]

\* ApiService.clearStorage
clearStorage(st) == EmptyStorage

refreshAccessTokenKeepStorage(st, answer) ==
  IF st.refreshToken # None /\ answer.status = 200
  THEN [ok |-> TRUE,
        storage |-> storeTokens(st, answer.accessToken, answer.refreshToken),
        accessToken |-> answer.accessToken]
  ELSE [ok |-> FALSE, storage |-> st, accessToken |-> None]

\* ApiService.refreshAccessToken; ok = FALSE when it throws
refreshAccessToken(st, answer) ==
  IF st.refreshToken = None
  THEN [ok |-> FALSE, storage |-> clearStorage(st), accessToken |-> None]
  ELSE IF answer.status # 200
  THEN [ok |-> FALSE, storage |-> clearStorage(st), accessToken |-> None]
  ELSE [ok |-> TRUE,
        storage |-> storeTokens(st, answer.accessToken, answer.refreshToken),
        accessToken |-> answer.accessToken]

\* const data = await response.json(); if (!response.ok) throw ...
settle(status) ==
  IF status = 0
  THEN [kind |-> "error", message |-> "network", status |-> 0]
  ELSE IF status = 200
  THEN [kind |-> "data", message |-> "", status |-> status]
  ELSE [kind |-> "error", message |-> "HTTP", status |-> status]

\* ApiService.login: tokens and user data stored
Login(withRefreshToken) ==
  /\ call.pc \in {"idle", "done"}
  /\ storage' = [storeTokens(storage, "a1",
                             IF withRefreshToken THEN "r1" ELSE None)
                   EXCEPT !.userData = "profile"]
  /\ call' = IdleCall
  /\ resp' = Response("login", 200, 0, None, withRefreshToken)
  /\ UNCHANGED <<canteenVars, lifecycleVars, serviceVars, placing,
                 submitting, adding, cartVersion, reviewing>>

\* request(): let accessToken = await this.getAccessToken()
RequestBegin(endpoint) ==
  /\ call.pc \in {"idle", "done"}
  /\ call' = [IdleCall EXCEPT !.pc = "fetching", !.endpoint = endpoint,
                              !.accessToken = storage.accessToken,
                              !.hadToken = storage.accessToken # None]
  /\ resp' = Response("request", 0, 0, None, endpoint)
  /\ UNCHANGED <<canteenVars, lifecycleVars, serviceVars, placing,
                 submitting, adding, cartVersion, reviewing, storage>>

\* let response = await fetch(...): the first fetch of the endpoint
RequestFetch(status) ==
  /\ call.pc = "fetching"
  /\ call' = IF status = 401 /\ call.accessToken # None
             THEN [call EXCEPT !.pc = "refreshing", !.fetches = @ + 1,
                               !.first = status]
             ELSE [call EXCEPT !.pc = "done", !.fetches = @ + 1,
                               !.first = status, !.outcome = settle(status)]
  /\ resp' = Response("request", status, 0, None, "fetch")
  /\ UNCHANGED <<canteenVars, lifecycleVars, serviceVars, placing,
                 submitting, adding, cartVersion, reviewing, storage>>

\* accessToken = await this.refreshAccessToken(), inside the inner try
RequestRefresh(answer) ==
  LET res == refreshAccessToken(storage, answer)
  IN /\ call.pc = "refreshing"
     /\ storage' = res.storage
     /\ call' = IF res.ok
                THEN [call EXCEPT !.pc = "retrying", !.refreshes = @ + 1,
                                  !.refreshed = "ok",
                                  !.accessToken = res.accessToken]
                ELSE [call EXCEPT !.pc = "done", !.refreshes = @ + 1,
                                  !.refreshed = "failed",
                                  !.outcome =
                                     [kind |-> "error",
                                      message |-> SessionExpired,
                                      status |-> 0]]
     /\ resp' = Response("request", answer.status, 0, None, "refresh")
     /\ UNCHANGED <<canteenVars, lifecycleVars, serviceVars, placing,
                    submitting, adding, cartVersion, reviewing>>

\* response = await fetch(...) with the new token, inside the inner try:
\* a fetch that throws is caught there
RequestRetry(status) ==
  /\ call.pc = "retrying"
  /\ call' = [call EXCEPT
                !.pc = "done", !.fetches = @ + 1, !.second = status,
                !.outcome = IF status = 0
                            THEN [kind |-> "error",
                                  message |-> SessionExpired, status |-> 0]
                            ELSE settle(status)]
  /\ resp' = Response("request", status, 0, None, "retry")
  /\ UNCHANGED <<canteenVars, lifecycleVars, serviceVars, placing,
                 submitting, adding, cartVersion, reviewing, storage>>

\* ApiService.logout: once its request has ended either way, the finally
\* block clears the store
LogoutFinally ==
  /\ call.pc = "done" /\ call.endpoint = "/auth/logout"
  /\ storage' = clearStorage(storage)
  /\ call' = IdleCall
  /\ resp' = Response("logout", 0, 0, None, None)
  /\ UNCHANGED <<canteenVars, lifecycleVars, serviceVars, placing,
                 submitting, adding, cartVersion, reviewing>>

NextClient ==
  \/ \E b \in BOOLEAN : Login(b)
  \/ \E e \in Endpoints : RequestBegin(e)
  \/ LogoutFinally
  \/ \E status \in FetchStatuses : RequestFetch(status)
  \/ \E answer \in RefreshAnswers : RequestRefresh(answer)
  \/ \E status \in FetchStatuses : RequestRetry(status)

SpecClient == Init /\ [][NextClient]_vars

\* how far a request call has come
callRank(pc) ==
  CASE pc = "idle" -> 0
    [] pc = "fetching" -> 1
    [] pc = "refreshing" -> 2
    [] pc = "retrying" -> 3
    [] pc = "done" -> 4

\* C30: a request call fetches the endpoint at most twice and refreshes the
\* token at most once, and every step of a running call brings it nearer
\* to its end; a 401 on the first fetch with a stored access token leads to
\* exactly one refresh, followed by one retry when the refresh succeeds;
\* when the refresh fails, access token, refresh token and user data are
\* cleared and the call fails with the session-expired error; a 401 on the
\* retry is returned as an error with no further refresh.
C30_RequestRefreshesOnce ==
  [][/\ call'.fetches <= 2 /\ call'.refreshes <= 1
     /\ call.pc \in {"fetching", "refreshing", "retrying"}
          => callRank(call'.pc) > callRank(call.pc)
     /\ call'.pc = "done" =>
          IF call'.first = 401 /\ call'.hadToken
          THEN /\ call'.refreshes = 1
               /\ IF call'.refreshed = "ok"
                  THEN /\ call'.fetches = 2
                       /\ call'.second = 401 =>
                            /\ call'.outcome.kind = "error"
                            /\ call'.outcome.status = 401
                  ELSE /\ call'.fetches = 1
                       /\ storage' = EmptyStorage
                       /\ call'.outcome.kind = "error"
                       /\ call'.outcome.message = SessionExpired
          ELSE call'.refreshes = 0 /\ call'.fetches = 1]_vars

\* a call whose first fetch answered 401 under stored tokens and user data,
\* and whose refresh was refused: the store is empty and the call has
\* failed with the session-expired error
C30_Witness ==
  /\ call.pc = "done" /\ call.first = 401 /\ call.hadToken
  /\ call.refreshed = "failed" /\ call.fetches = 1
  /\ resp.arg = "refresh" /\ resp.code = 401
  /\ storage = EmptyStorage
  /\ call.outcome.message = SessionExpired

====
